---- MODULE Spec2Model ----
(***************************************************************************)
(* SignalWatch: the routes of src/app.py (the /api/scan handler            *)
(* scan_companies, the export and download routes, the rate-limit route)   *)
(* with the collaborators they drive: the GitHub-backed cache store, the   *)
(* registry client, the batch processor and the disk.  The requests of a   *)
(* behaviour are served by handlers that run side by side, each on locals  *)
(* of its own.  Further specifications cover the date parser               *)
(* (src/date_parser.py), the network traversal, the registry's rate        *)
(* limiter, the disk cleanup (src/cleanup.py) and the report exporters     *)
(* (src/json_exporter.py, src/html_exporter.py).                           *)
(*                                                                         *)
(* Strings the handler manipulates character by character (company         *)
(* numbers) are sequences of one-character strings; letters of the         *)
(* alphabetical search are their code points.                              *)
(***************************************************************************)
EXTENDS Integers, Sequences, FiniteSets, TLC

\* ------------------------------------------------------------------ bounds

\* Longest company_numbers list of a request.
MaxCompanies == 2
\* Requests served in one behaviour, side by side.
MaxRequests == 2
\* Last second of the wall clock (result ids are timestamps to the second).
MaxClock == 1
\* Deepest network_depth a request asks for.
MaxDepth == 1
\* Failing collaborator calls the requests of a behaviour meet.
MaxFaults == 1

\* ------------------------------------------------------- program constants

\* num.zfill(8)
CompanyNumberWidth == 8
\* range(start_ord, min(end_ord + 1, start_ord + 5)): "Max 5 letters at a time"
MaxLetters == 5
\* data.get('network_depth', 1)
DefaultNetworkDepth == 1

\* ------------------------------------------------------------ input values

N123 == <<"1", "2", "3">>
N00000123 == <<"0", "0", "0", "0", "0", "1", "2", "3">>
N123456789 == <<"1", "2", "3", "4", "5", "6", "7", "8", "9">>
NSC123456 == <<"S", "C", "1", "2", "3", "4", "5", "6">>
NoNumber == <<>>

\* Company number strings a client may post.
RawNumbers == {N123, N123456789}

\* Lists of at most n raw numbers.
RECURSIVE NumberLists(_)
NumberLists(n) ==
    IF n = 0 THEN {<<>>}
    ELSE LET shorter == NumberLists(n - 1)
         IN  shorter \cup {Append(l, x) : l \in {s \in shorter : Len(s) = n - 1},
                                          x \in RawNumbers}

OnlyActive == "Only Active Directors"
AllDirectors == "Directors"
Unbound == "<unbound>"

\* The filters object of a filtered scan: alpha_start/alpha_end are code
\* points (0: not given), company_types a set of type names.  The requests
\* leave the year, location, SIC and dissolved-date filters unset, so those
\* passes of the handler are skipped.
NoFilters == [alpha_start |-> 0, alpha_end |-> 0, limit |-> 0, company_types |-> {}]
FilterChoices ==
    { [alpha_start |-> 65, alpha_end |-> 66, limit |-> 1, company_types |-> {}],
      [alpha_start |-> 65, alpha_end |-> 66, limit |-> 2, company_types |-> {"plc"}],
      [alpha_start |-> 0,  alpha_end |-> 0,  limit |-> 2, company_types |-> {}],
      [alpha_start |-> 65, alpha_end |-> 72, limit |-> 2, company_types |-> {"llp"}],
      [alpha_start |-> 65, alpha_end |-> 72, limit |-> 4, company_types |-> {}],
      [alpha_start |-> 65, alpha_end |-> 66, limit |-> 0, company_types |-> {}] }

\* The combinations of fields the requests are drawn from: the cache flag
\* with either the network or the director flag on the single-company request
\* for 123, and on the other requests the fields their handling reads: the
\* request for the unknown company 123456789 has the cache flag off and the
\* one without numbers has it on.
Drawn(r) ==
    /\ (r.ch_api_key = "" \/ r.use_ai) =>
          /\ r.company_numbers = <<N123>>
          /\ r.use_github_cache /\ ~r.scan_network /\ ~r.active_directors_only
    /\ r.ch_api_key = "" => ~r.use_ai
    /\ r.active_directors_only => ~r.scan_network
    /\ r.company_numbers # <<N123>> =>
          /\ ~r.scan_network /\ ~r.active_directors_only
          /\ r.company_numbers \in {<<>>, <<N123456789>>, <<N123, N123456789>>}
          /\ r.company_numbers = <<N123456789>> => ~r.use_github_cache
    /\ r.company_numbers = <<>> /\ r.scan_mode = "specific" => r.use_github_cache
    /\ r.scan_mode = "filtered" /\ ~r.use_github_cache => r.filters.limit = 1

\* The JSON bodies posted to /api/scan.  The AI key is only sent along with
\* use_ai, and network_depth only along with scan_network.  result_id and
\* format are the URL parameters of the export and download routes.
Requests ==
    { r \in [ scan_mode : {"specific", "filtered"},
              company_numbers : NumberLists(MaxCompanies),
              filters : FilterChoices \cup {NoFilters},
              scan_network : BOOLEAN,
              network_depth : 1..MaxDepth,
              active_directors_only : BOOLEAN,
              use_ai : BOOLEAN,
              use_github_cache : BOOLEAN,
              ch_api_key : {"", "ch-key"},
              xai_api_key : {"", "xai-key"},
              result_id : {-1},
              format : {""} ] :
        /\ (r.scan_mode = "specific") = (r.filters = NoFilters)
        /\ r.scan_mode = "filtered" => r.company_numbers = <<>>
        /\ r.xai_api_key # "" => r.use_ai
        /\ ~r.scan_network => r.network_depth = DefaultNetworkDepth
        /\ Drawn(r) }

NoRequest ==
    [ scan_mode |-> "none", company_numbers |-> <<>>, filters |-> NoFilters,
      scan_network |-> FALSE, network_depth |-> DefaultNetworkDepth,
      active_directors_only |-> FALSE, use_ai |-> FALSE,
      use_github_cache |-> FALSE, ch_api_key |-> "", xai_api_key |-> "",
      result_id |-> -1, format |-> "" ]

\* ------------------------------------------------------------ pure helpers

RECURSIVE Zeros(_)
Zeros(n) == IF n <= 0 THEN <<>> ELSE <<"0">> \o Zeros(n - 1)

\* str.zfill(width): pads on the left with "0", after a leading sign.
zfill(s, width) ==
    IF Len(s) >= width THEN s
    ELSE IF Len(s) > 0 /\ s[1] \in {"+", "-"}
         THEN <<s[1]>> \o Zeros(width - Len(s)) \o Tail(s)
         ELSE Zeros(width - Len(s)) \o s

\* [num.zfill(8) for num in company_numbers]
ZfillAll(nums) == [i \in 1..Len(nums) |-> zfill(nums[i], CompanyNumberWidth)]

\* Mutant of FolderSuffix: one folder whatever the flag.
FolderSuffixFixed(active_directors_only) == AllDirectors

\* folder_suffix = "Only Active Directors" if active_directors_only else "Directors"
FolderSuffix(active_directors_only) ==
    IF active_directors_only THEN OnlyActive ELSE AllDirectors

\* Mutant of UseCache: the cache is consulted for any number of companies.
UseCacheAnyLength(use_github_cache, nums) == use_github_cache /\ Len(nums) >= 1

\* if not ch_api_key
MissingChKey(ch_api_key) == ch_api_key = ""

\* Mutant of MissingXaiKey: the AI key is never asked for.
MissingXaiKeyIgnored(use_ai, xai_api_key) == FALSE

\* if use_ai and not xai_api_key
MissingXaiKey(use_ai, xai_api_key) == use_ai /\ xai_api_key = ""

\* if use_github_cache and len(company_numbers) == 1
UseCache(use_github_cache, nums) == use_github_cache /\ Len(nums) = 1

\* CompaniesHouseClient(api_key): the key given, else the one of the
\* environment; with neither the constructor raises ValueError.
ClientInit(api_key, env_key) ==
    IF api_key = "" /\ env_key = "" THEN "ValueError" ELSE "ok"

Min(a, b) == IF a <= b THEN a ELSE b

\* s[:n] for n >= 0
Prefix(s, n) == SubSeq(s, 1, Min(n, Len(s)))

\* ------------------------------------------------- registry (collaborator)

\* What the company registry holds: each record's number, the code point of
\* the first letter of its name, and its type.  The last record carries no
\* company_number.
RegistryRecords ==
    << [company_number |-> N00000123, initial |-> 65, company_type |-> "ltd"],
       [company_number |-> NSC123456, initial |-> 66, company_type |-> "plc"],
       [company_number |-> NoNumber,  initial |-> 66, company_type |-> "ltd"] >>

KnownCompanies ==
    {RegistryRecords[i].company_number : i \in 1..Len(RegistryRecords)} \ {NoNumber}

RECURSIVE MatchInitial(_, _)
MatchInitial(recs, query) ==
    IF recs = <<>> THEN <<>>
    ELSE (IF query = 0 \/ Head(recs).initial = query THEN <<Head(recs)>> ELSE <<>>)
         \o MatchInitial(Tail(recs), query)

\* api_client.search_companies(query=letter, ...): the records the registry
\* returns for a query (0: no query).
search_companies(query) == MatchInitial(RegistryRecords, query)

\* ------------------------------------------------------- filtered resolving

\* range(start_ord, min(end_ord + 1, start_ord + 5)): the letters of the
\* alphabetical search, none when alpha_end lies before alpha_start.
Alphabetical(filters) == filters.alpha_start # 0 /\ filters.alpha_end # 0

LastLetter(filters) ==
    Min(filters.alpha_end + 1, filters.alpha_start + MaxLetters) - 1

\* Mutant of LimitReached: the loop does not break at the limit.
LimitNeverReached(found, limit) == FALSE

\* if len(search_results) >= limit: break
LimitReached(found, limit) == Len(found) >= limit

\* if company_types: keep the companies whose company_type is listed
RECURSIVE FilterByType(_, _)
FilterByType(recs, company_types) ==
    IF recs = <<>> THEN <<>>
    ELSE (IF Head(recs).company_type \in company_types THEN <<Head(recs)>> ELSE <<>>)
         \o FilterByType(Tail(recs), company_types)

ClientSideFilters(recs, filters) ==
    IF filters.company_types # {} THEN FilterByType(recs, filters.company_types)
    ELSE recs

\* [c.get('company_number') for c in recs if c.get('company_number')]
RECURSIVE NumbersOf(_)
NumbersOf(recs) ==
    IF recs = <<>> THEN <<>>
    ELSE (IF Head(recs).company_number # NoNumber
          THEN <<Head(recs).company_number>> ELSE <<>>)
         \o NumbersOf(Tail(recs))

\* company_numbers of a filtered scan, from what the searches returned
FilteredNumbers(found, filters) ==
    NumbersOf(Prefix(ClientSideFilters(found, filters), filters.limit))

\* -------------------------------------------------- batch processor (coll.)

NoNetwork == [present |-> FALSE, seeds |-> <<>>, depth |-> 0]
NoResults == [results |-> <<>>, network |-> NoNetwork]

\* One company's slot of the results list: populated, or marked as an error
\* when the registry does not know the number, with the configuration it was
\* scanned under.  folder_type is its '_folder_type' ("": not set) and
\* metadata tells whether it has a '_metadata' entry.
CompanyResult(n, active_only, use_ai) ==
    [company_number |-> n, error |-> n \notin KnownCompanies,
     active_only |-> active_only, use_ai |-> use_ai,
     folder_type |-> "", metadata |-> FALSE]

\* processor.process_companies(...): one slot per requested company, and the
\* network graph of a traversal seeded with them when scan_network is set.
process_companies(nums, scan_network, network_depth, active_only, use_ai) ==
    [ results |-> [i \in 1..Len(nums) |-> CompanyResult(nums[i], active_only, use_ai)],
      network |-> IF scan_network
                  THEN [present |-> TRUE, seeds |-> nums, depth |-> network_depth]
                  ELSE NoNetwork ]

\* network_data.get('connections'): the traversal's graph has a connection
\* when one of its seeds is a company of the registry, whose directors it
\* fetches.
HasConnections(graph) ==
    graph.present /\ \E i \in 1..Len(graph.seeds) : graph.seeds[i] \in KnownCompanies

\* ------------------------------------------------------------------- state

\* The handlers of the requests of a behaviour: one run of a route's function
\* per request, the k-th request served by handler k.
Handlers == 1..MaxRequests

VARIABLES
    pc,                 \* handler -> the call it waits in, "done" once it has answered
    req,                \* handler -> request.json, or the route's URL parameters
    search_results,     \* handler -> local: the records its searches returned so far
    company_numbers,    \* handler -> local: the resolved company numbers
    folder_suffix,      \* handler -> local: the cache folder, Unbound until assigned
    results,            \* handler -> local: the results object
    results_ref,        \* handler -> the handler that made the object `results` is, 0: none
    result_id,          \* handler -> local: the id the results were stored under, -1: none
    exported,           \* handler -> local: the paths its exporter calls returned
    zipf,               \* handler -> local: the archive it writes and its loop over the PDFs
    uploads,            \* handler -> local: the files of the listing it pushes, still to go
    known,              \* history: handler -> the keys the store held when its request arrived
    response,           \* handler -> the HTTP response
    trace,              \* handler -> the collaborator calls of the request, in order
    processing_results, \* global: result_id -> results
    owner,              \* result_id -> the handler whose results object is stored under it
    session,            \* session['last_result_id'], -1: none
    github,             \* the remote cache store: <<number, folder>> -> result
    now,                \* the wall clock, in seconds
    nreq                \* requests received so far

vars == << pc, req, search_results, company_numbers, folder_suffix, results, results_ref,
           result_id, exported, zipf, uploads, known, response, trace, processing_results,
           owner, session, github, now, nreq >>

\* No file is sent.
NoFile == [dir |-> "", folder |-> NoNumber, name |-> <<"", NoNumber, -1>>,
           ext |-> "", age |-> 0]

\* No archive is open.
NoZip == [path |-> NoFile, slot |-> 0, listed |-> {}, pdf_count |-> 0]

NoResponse ==
    [status |-> 0, success |-> FALSE, result_id |-> -1, from_github_cache |-> FALSE,
     company_number |-> NoNumber, folder_type |-> "", error |-> "", sent |-> NoFile]

ErrorResponse(status, message) ==
    [NoResponse EXCEPT !.status = status, !.error = message]

\* A call of a collaborator: what was called, the company number and folder it
\* was given (when it takes them), and how it ended.
Call(op, number, folder, outcome) ==
    [op |-> op, number |-> number, folder |-> folder, outcome |-> outcome]

\* ------------------------------------------------ the other components' state
\* The date parser (src/date_parser.py) is exercised on its own: its state
\* is the arguments and the return values of its calls.  Datetimes are whole
\* numbers of ticks since the first midnight of the calendar.

VARIABLES
    dpc,              \* "start", "compared", "searched"
    expected_date,    \* date1 of compare_dates, expected_date of find_date_mismatches
    other_date,       \* date2 of compare_dates
    found_dates,      \* found_dates of find_date_mismatches
    tolerance_days,
    compared,         \* what the calls of compare_dates returned
    mismatches        \* what find_date_mismatches returned

dvars == << dpc, expected_date, other_date, found_dates, tolerance_days,
            compared, mismatches >>

NotCompared == [ab |-> FALSE, ba |-> FALSE, aa |-> FALSE]

\* No date parser call is in progress.
DatesUnused ==
    /\ dpc = "unused"
    /\ expected_date = 0
    /\ other_date = 0
    /\ found_dates = <<>>
    /\ tolerance_days = 0
    /\ compared = NotCompared
    /\ mismatches = <<>>

\* The network traversal (design section 4.5; its code is not part of
\* src/): one traversal from its seeds to its graph.

VARIABLES
    tpc,              \* "unused", "seeding", "level", "done"
    seeds,            \* the seed list
    max_depth,
    active_only,
    failing,          \* upstream: the companies whose director fetch fails
    seeded,           \* how many seeds have been taken
    depth,            \* the level being expanded
    frontier,         \* companies of this level whose fetch has not started
    fetching,         \* companies whose director fetch is in flight
    next_frontier,    \* companies enqueued for the next level
    visited,          \* the visited-set: company -> depth of its discovery
    network,          \* the graph: node counts, connections, warnings, statistics
    expanded,         \* company -> number of director fetches started for it
    finished          \* the companies in the order their fetches ended

tvars == << tpc, seeds, max_depth, active_only, failing, seeded, depth, frontier,
            fetching, next_frontier, visited, network, expanded, finished >>

NoStatistics ==
    [total_companies |-> 0, total_directors |-> 0, total_connections |-> 0,
     depth_reached |-> 0]

EmptyGraph ==
    [companies |-> << >>, directors |-> << >>, connections |-> {},
     warnings |-> {}, statistics |-> NoStatistics]

\* The traversal state before any seed is taken.
TraversalStart ==
    /\ seeded = 0
    /\ depth = 0
    /\ frontier = {}
    /\ fetching = {}
    /\ next_frontier = {}
    /\ visited = << >>
    /\ network = EmptyGraph
    /\ expanded = << >>
    /\ finished = <<>>

\* No traversal is in progress.
TraversalUnused ==
    /\ tpc = "unused"
    /\ seeds = <<>>
    /\ max_depth = 0
    /\ active_only = FALSE
    /\ failing = {}
    /\ TraversalStart

\* The registry's rate limiter (design section 4.1; its code is not part of
\* src/) with the workers that call the registry through it.

VARIABLES
    requests_made,    \* the limiter's counter for its current window
    elapsed,          \* ticks since the window started
    window_no,        \* how many windows have been started after the first
    callers,          \* worker -> [state, deadline] of its registry call
    window_grants,    \* history: the calls granted since the window started
    at_boundary       \* history: the window was started by a call made exactly
                      \* at the end of the one before

lvars == << requests_made, elapsed, window_no, callers, window_grants, at_boundary >>

Workers == {"w1", "w2"}

\* A worker that has made no call yet.  deadline -1 stands for none; blocked
\* tells that the call has waited with the budget exhausted.
IdleCaller == [state |-> "idle", deadline |-> -1, blocked |-> FALSE]

\* The limiter after construction, no call made.
LimiterInit ==
    /\ requests_made = 0
    /\ elapsed = 0
    /\ window_no = 0
    /\ callers = [w \in Workers |-> IdleCaller]
    /\ window_grants = 0
    /\ at_boundary = FALSE

\* The date extraction of the date parser (src/date_parser.py lines 50-185
\* and 226-250): the arguments and the return value of its latest call.  A
\* text is given by what the patterns match in it.

VARIABLES
    epc,              \* the function called last, "idle" before any call
    context,          \* the context argument of extract_dates
    scoped_matches,   \* what the context patterns capture in the text, in order
    plain_matches,    \* what DATE_PATTERNS match in the text, in order
    range_matches,    \* the (start, end) pairs the range pattern captures
    extracted         \* what the call returned

evars == << epc, context, scoped_matches, plain_matches, range_matches, extracted >>

\* No extraction has been called.
ExtractIdle ==
    /\ epc = "idle"
    /\ context = "None"
    /\ scoped_matches = <<>>
    /\ plain_matches = <<>>
    /\ range_matches = <<>>
    /\ extracted = [raised |-> "None", value |-> <<>>]

\* The disk (src/cleanup.py, and what the handler and the exporters write):
\* the files on disk and what the cleanup operations did to them.

VARIABLES
    existing,         \* which of EXPORTS_DIR and DATA_DIR exist
    files,            \* the files on disk
    removed,          \* history: the files the cleanup removed so far
    returned          \* the latest cleanup operation that returned, its
                      \* argument and what it returned

cvars == << existing, files, removed, returned >>

\* What an operation returned: None, or a count.
NoCall == [op |-> "None", max_age |-> 0, none |-> TRUE, count |-> 0]

CleanupUnused ==
    /\ existing = {}
    /\ files = {}
    /\ removed = {}
    /\ returned = NoCall

\* The report exporters (src/json_exporter.py, src/html_exporter.py): the
\* results handed to the latest export and what it produced.

VARIABLES
    rpc,              \* the exporter called last, "idle" before any call
    report_input,     \* the results argument
    viz_data,         \* what export_for_visualization wrote
    html_report,      \* what _generate_full_report_html rendered
    export_data,      \* what the other exports wrote
    written           \* the file the export returned the path of

rvars == << rpc, report_input, viz_data, html_report, export_data, written >>

NoVizData == [nodes |-> <<>>, edges |-> <<>>, mismatches |-> <<>>]

NoHtmlReport ==
    [total_companies |-> 0, companies_with_mismatches |-> 0, total_mismatches |-> 0,
     clean_records |-> 0, cards |-> <<>>, network_section |-> FALSE]

\* A network as the exporters are handed it: none is set for None (the
\* results have no 'network'), present for a mapping with entries.
NoGraph == [present |-> FALSE, none |-> TRUE, directors |-> {}, connections |-> {}]

\* The network is {}.
EmptyNetwork == [present |-> FALSE, none |-> FALSE, directors |-> {}, connections |-> {}]

NoExportData ==
    [kind |-> "None", total_companies |-> 0, with_issues |-> 0, total_issues |-> 0,
     companies |-> <<>>, network |-> NoGraph]

ReportsIdle ==
    /\ rpc = "idle"
    /\ report_input = [results |-> <<>>, network |-> NoGraph]
    /\ viz_data = NoVizData
    /\ html_report = NoHtmlReport
    /\ export_data = NoExportData
    /\ written = NoFile

xvars == << evars, cvars, rvars >>

\* What an action of the application leaves alone.
others == << dvars, tvars, lvars, evars, rvars >>

\* Extraction, cleanup and exporters are not in use.
OthersUnused == ExtractIdle /\ CleanupUnused /\ ReportsIdle

\* ------------------------------------------------------------------ the disk
\*
\* Config is not part of the sources.  EXPORTS_DIR and DATA_DIR are the
\* directories ./exports and ./data the scan handler also names literally
\* (app.py lines 295 and 306 against 247 and 413); where CACHE_DIR lies is
\* nowhere said, and it may be a tree of its own or a folder below either of
\* the two.  A file is the directory it lies in, its company folder
\* directly below DATA_DIR (NoNumber: none), its name as <<prefix, company
\* number, timestamp>> (a part the name does not have is NoNumber or -1), its
\* extension, and its age in hours.

\* The directories CACHE_DIR may be: ./cache, ./data/cache, ./exports/cache.
CacheDirs == {"cache", "data/cache", "exports/cache"}

\* f lies below EXPORTS_DIR, below DATA_DIR, below CACHE_DIR.
UnderExports(f) == f.dir \in {"exports", "exports/cache"}
UnderData(f) == f.dir \in {"data", "data/cache"}
UnderCache(f) == f.dir \in CacheDirs

HoursPerDay == 24

File(dir, folder, prefix, number, stamp, ext, age) ==
    [dir |-> dir, folder |-> folder, name |-> <<prefix, number, stamp>>,
     ext |-> ext, age |-> age]

\* A file just written below EXPORTS_DIR.
ExportFile(prefix, number, stamp, ext) ==
    File("exports", NoNumber, prefix, number, stamp, ext, 0)

SamePath(f, g) ==
    f.dir = g.dir /\ f.folder = g.folder /\ f.name = g.name /\ f.ext = g.ext

\* open(path, 'w') and what is written: the file is new, or replaces the one
\* of that path.
Write(fs, f) == { g \in fs : ~SamePath(f, g) } \cup {f}

\* os.remove(path)
Remove(fs, f) == { g \in fs : ~SamePath(f, g) }

\* exports_dir.glob('**/*') with is_file() and file_time < cutoff_time
OldExports(fs, max_age_hours) ==
    { f \in fs : UnderExports(f) /\ f.age > max_age_hours }

\* data_dir.glob('**/*.pdf') with file_time < cutoff_time
OldDataPdfs(fs, max_age_days) ==
    { f \in fs : UnderData(f) /\ f.ext = "pdf" /\ f.age > max_age_days * HoursPerDay }

\* company_dir.glob('*.pdf') for company_dir = DATA_DIR / company_number
CompanyPdfs(fs, company_number) ==
    { f \in fs : f.dir = "data" /\ f.folder = company_number /\ f.ext = "pdf" }

ReturnedCount(op, age, count) == [op |-> op, max_age |-> age, none |-> FALSE, count |-> count]
ReturnedNone(op, age) == [op |-> op, max_age |-> age, none |-> TRUE, count |-> 0]

\* A cleanup call that raised returned nothing.
ReturnedRaised(op, age) == [op |-> op, max_age |-> age, none |-> TRUE, count |-> -1]

\* An export that raised did so before it opened its file or while it wrote
\* it: the file is left behind or not.
Failed(fs, f) == {fs, Write(fs, f)}

\* f is on disk.
OnDisk(fs, f) == \E g \in fs : SamePath(f, g)

\* What cleanup_exports(max_age_hours) does to the disk when unlink succeeds
\* on the files `gone` (cleanup.py lines 19-37).
UnlinkExports(max_age_hours, gone) ==
    IF "exports" \notin existing
    THEN /\ returned' = ReturnedNone("cleanup_exports", max_age_hours)
         /\ UNCHANGED << files, removed >>
    ELSE /\ gone \subseteq OldExports(files, max_age_hours)
         /\ files' = files \ gone
         /\ removed' = removed \cup gone
         /\ returned' = ReturnedCount("cleanup_exports", max_age_hours, Cardinality(gone))

\* What cleanup_data_pdfs(max_age_days) does to the disk when unlink succeeds
\* on the files `gone` (cleanup.py lines 58-79).
UnlinkDataPdfs(max_age_days, gone) ==
    IF "data" \notin existing
    THEN /\ returned' = ReturnedNone("cleanup_data_pdfs", max_age_days)
         /\ UNCHANGED << files, removed >>
    ELSE /\ gone \subseteq OldDataPdfs(files, max_age_days)
         /\ files' = files \ gone
         /\ removed' = removed \cup gone
         /\ returned' = ReturnedCount("cleanup_data_pdfs", max_age_days, Cardinality(gone))

\* The call raised on its way through the directory, after unlink succeeded on
\* the files `gone`.
UnlinkRaised(op, max_age, gone) ==
    /\ files' = files \ gone
    /\ removed' = removed \cup gone
    /\ returned' = ReturnedRaised(op, max_age)

\* The disk the application starts on: an export of an earlier run and a
\* filing downloaded for company 00000123, both old enough for the cleanup
\* of a scan.  The routes read and write no file of CACHE_DIR, whose files
\* are left to the specification of the cleanup.
UsedDisk ==
    { File("exports", NoNumber, "old", NoNumber, -1, "csv", 2),
      File("data", N00000123, "old", NoNumber, -1, "pdf", 25) }

\* The application after construction (src/app.py lines 19-29): no request
\* has arrived and every handler's locals are unassigned.
AppInit ==
    /\ pc = [h \in Handlers |-> "idle"]
    /\ req = [h \in Handlers |-> NoRequest]
    /\ search_results = [h \in Handlers |-> <<>>]
    /\ company_numbers = [h \in Handlers |-> <<>>]
    /\ folder_suffix = [h \in Handlers |-> Unbound]
    /\ results = [h \in Handlers |-> NoResults]
    /\ results_ref = [h \in Handlers |-> 0]
    /\ result_id = [h \in Handlers |-> -1]
    /\ exported = [h \in Handlers |-> <<>>]
    /\ zipf = [h \in Handlers |-> NoZip]
    /\ uploads = [h \in Handlers |-> {}]
    /\ known = [h \in Handlers |-> {}]
    /\ response = [h \in Handlers |-> NoResponse]
    /\ trace = [h \in Handlers |-> <<>>]
    /\ processing_results = << >>
    /\ owner = << >>
    /\ session = -1
    /\ github = << >>
    /\ now = 0
    /\ nreq = 0

\* Config.ensure_directories() (app.py line 26; Config is not part of the
\* sources) has made the directories the application writes to.
AppDisk ==
    /\ existing = {"exports", "data"}
    /\ files = UsedDisk
    /\ removed = {}
    /\ returned = NoCall

Init ==
    /\ AppInit /\ AppDisk
    /\ DatesUnused /\ TraversalUnused /\ LimiterInit /\ ExtractIdle /\ ReportsIdle

\* d[k] = v
Put(d, k, v) == [x \in DOMAIN d \cup {k} |-> IF x = k THEN v ELSE d[x]]

\* Handler h returns: its response is set and it runs no further.
Return(h, resp) ==
    /\ response' = [response EXCEPT ![h] = resp]
    /\ pc' = [pc EXCEPT ![h] = "done"]

\* Handler h calls a collaborator.
Called(h, calls) == trace' = [trace EXCEPT ![h] = trace[h] \o calls]

\* The next request is handed to handler h, which has not run yet.
Free(h) == h = nreq + 1 /\ pc[h] = "idle"

\* The collaborator calls of handler h that failed so far.
Faults(h) ==
    Cardinality({ i \in 1..Len(trace[h]) : trace[h][i].outcome \in {"down", "raise"} })

\* Those of the handlers 1..n.
RECURSIVE FaultsUpTo(_)
FaultsUpTo(n) == IF n = 0 THEN 0 ELSE Faults(n) + FaultsUpTo(n - 1)

\* The ways a collaborator call of handler h may end, out of `outcomes`: the
\* requests of a behaviour meet at most MaxFaults failing calls.
Outcomes(h, outcomes) == IF FaultsUpTo(MaxRequests) < MaxFaults THEN outcomes ELSE {"ok"}

\* The files of `old` that unlink removes: it may fail on any of them.
Unlinked(h, old) == IF FaultsUpTo(MaxRequests) < MaxFaults THEN SUBSET old ELSE {old}

\* ---------------------------------------------------- cache store (coll.)
\*
\* GitHubStorage is not part of the sources.  It is taken from the CacheStore
\* contract: exists and get by company number and folder, put by company
\* number, the folder being the '_folder_type' of the data put; get hands
\* back what the store holds under the key, which is what was put for every
\* field that was put.  The data held carries a '_metadata' entry of the
\* store's own (app.py line 205 reads its scanned_at from the data read),
\* which the result of a fresh scan does not have.

check_company_exists(store, company_number, folder) ==
    <<company_number, folder>> \in DOMAIN store

get_company_data(store, company_number, folder) ==
    store[<<company_number, folder>>]

\* The store a successful put leaves: the data under its key, with the
\* store's '_metadata'.
push_company_data(store, company_number, data) ==
    Put(store, <<company_number, data.folder_type>>, [data EXCEPT !.metadata = TRUE])

\* --------------------------------------------------------------- the handler
\*
\* A route's function runs once per request, each run on locals of its own; a
\* run waits inside its collaborators' calls (the network, the disk), and the
\* other runs go on meanwhile.  pc is the call a handler waits in; a step is
\* the return of that call and the stretch of the function up to the next
\* call it waits in, or to its return.

\* The positions of the calls of op in the trace of handler h.
CallsOf(h, op) == {i \in 1..Len(trace[h]) : trace[h][i].op = op}

\* What storing a result sets.
stored == << results, results_ref, result_id, processing_results, owner, session, now >>

\* The locals of the export and download routes.
archive == << exported, zipf >>

\* A POST /api/scan arrives (line 42-52): a handler starts on it.
scan_receive(h) ==
    /\ Free(h)
    /\ UNCHANGED << others, cvars >>
    /\ \E r \in Requests : req' = [req EXCEPT ![h] = r]
    /\ nreq' = nreq + 1
    /\ pc' = [pc EXCEPT ![h] = "validate"]
    /\ known' = [known EXCEPT ![h] = DOMAIN github]
    /\ UNCHANGED << search_results, company_numbers, folder_suffix, stored, archive,
                    uploads, response, trace, github >>

\* Lines 54-62: the required keys, then GitHubStorage(), which may raise.
scan_validate(h) ==
    /\ pc[h] = "validate"
    /\ UNCHANGED << others, cvars >>
    /\ UNCHANGED << uploads, known >>
    /\ UNCHANGED << req, search_results, company_numbers, folder_suffix, stored, archive,
                    github, nreq >>
    /\ IF MissingChKey(req[h].ch_api_key)
       THEN /\ Return(h, ErrorResponse(400, "Companies House API key is required"))
            /\ UNCHANGED trace
       ELSE IF MissingXaiKey(req[h].use_ai, req[h].xai_api_key)
       THEN /\ Return(h, ErrorResponse(400, "XAI API key is required"))
            /\ UNCHANGED trace
       ELSE \E outcome \in Outcomes(h, {"ok", "raise"}) :
              /\ Called(h, <<Call("GitHubStorage", NoNumber, "", outcome)>>)
              /\ IF outcome = "raise"
                 THEN Return(h, ErrorResponse(500, "GitHubStorage"))
                 ELSE pc' = [pc EXCEPT ![h] = "resolve"] /\ UNCHANGED response

\* Lines 217-227: the registry client and the batch processor are made and
\* process_companies is called.
EnterScan(h, calls) ==
    /\ pc' = [pc EXCEPT ![h] = "scan"]
    /\ Called(h, Append(calls, Call("CompaniesHouseClient", NoNumber, "",
                                    ClientInit(req[h].ch_api_key, ""))))

\* Lines 174-186: with no company number the handler answers 400; a
\* single-company request with the cache flag assigns folder_suffix and calls
\* check_company_exists; any other goes on to the fresh scan.
HaveNumbers(h, nums, calls) ==
    /\ company_numbers' = [company_numbers EXCEPT ![h] = nums]
    /\ IF nums = <<>>
       THEN /\ Return(h, ErrorResponse(400, "No company numbers provided"))
            /\ Called(h, calls)
            /\ UNCHANGED folder_suffix
       ELSE IF UseCache(req[h].use_github_cache, nums)
       THEN /\ folder_suffix' = [folder_suffix EXCEPT
                                   ![h] = FolderSuffix(req[h].active_directors_only)]
            /\ pc' = [pc EXCEPT ![h] = "cache"]
            /\ Called(h, calls)
            /\ UNCHANGED response
       ELSE /\ EnterScan(h, calls)
            /\ UNCHANGED << folder_suffix, response >>

\* Lines 64-83 and 170-175: a filtered scan makes its registry client and
\* calls the first search; a specific scan pads its numbers.
scan_resolve(h) ==
    /\ pc[h] = "resolve"
    /\ UNCHANGED << others, cvars >>
    /\ UNCHANGED << uploads, known >>
    /\ UNCHANGED << req, search_results, stored, archive, github, nreq >>
    /\ IF req[h].scan_mode = "filtered"
       THEN LET filters == req[h].filters
                client == <<Call("CompaniesHouseClient", NoNumber, "",
                                 ClientInit(req[h].ch_api_key, ""))>>
            IN  IF Alphabetical(filters) /\ LastLetter(filters) < filters.alpha_start
                THEN HaveNumbers(h, FilteredNumbers(<<>>, filters), client)
                ELSE /\ pc' = [pc EXCEPT ![h] = "search"]
                     /\ Called(h, client)
                     /\ UNCHANGED << company_numbers, folder_suffix, response >>
       ELSE HaveNumbers(h, ZfillAll(req[h].company_numbers), <<>>)

\* Lines 81-89 and 91-169: a search_companies call returns; the loop goes on
\* to the next letter unless the limit is reached or the letters are used up,
\* and then the client-side filters give the company numbers.  A search that
\* raises ends the request.
scan_search(h) ==
    /\ pc[h] = "search"
    /\ UNCHANGED << others, cvars >>
    /\ UNCHANGED << uploads, known >>
    /\ UNCHANGED << req, stored, archive, github, nreq >>
    /\ LET filters == req[h].filters
           letter == IF Alphabetical(filters)
                     THEN filters.alpha_start + Cardinality(CallsOf(h, "search_companies"))
                     ELSE 0
       IN  \E outcome \in Outcomes(h, {"ok", "raise"}) :
             LET calls == <<Call("search_companies", NoNumber, "", outcome)>>
                 found == IF Alphabetical(filters)
                          THEN search_results[h] \o search_companies(letter)
                          ELSE search_companies(letter)
             IN  IF outcome = "raise"
                 THEN /\ Return(h, ErrorResponse(500, "search_companies"))
                      /\ Called(h, calls)
                      /\ UNCHANGED << search_results, company_numbers, folder_suffix >>
                 ELSE /\ search_results' = [search_results EXCEPT ![h] = found]
                      /\ IF /\ Alphabetical(filters)
                            /\ ~LimitReached(found, filters.limit)
                            /\ letter < LastLetter(filters)
                         THEN /\ Called(h, calls)
                              /\ UNCHANGED << pc, company_numbers, folder_suffix, response >>
                         ELSE HaveNumbers(h, FilteredNumbers(found, filters), calls)

\* The outcomes of a call of the cache store: it answers, it cannot reach the
\* remote store and answers empty-handed, or it raises.
StoreOutcomes == {"ok", "down", "raise"}

\* result_id = datetime.now().strftime(...); processing_results[result_id] =
\* results; session['last_result_id'] = result_id (lines 197-202, 236-238):
\* the handler's results object is the one stored under the id from now on.
Store(h, t, res) ==
    /\ now' = t
    /\ result_id' = [result_id EXCEPT ![h] = t]
    /\ results' = [results EXCEPT ![h] = res]
    /\ results_ref' = [results_ref EXCEPT ![h] = h]
    /\ processing_results' = Put(processing_results, t, res)
    /\ owner' = Put(owner, t, h)
    /\ session' = t

\* Mutant of ServeCached: the cached data is stored but the handler does not
\* return and goes on to the fresh scan.
ServeCachedThenScan(h, company_number, cached_data) ==
    \E t \in now..MaxClock :
      /\ Store(h, t, [results |-> <<cached_data>>, network |-> NoNetwork])
      /\ pc' = [pc EXCEPT ![h] = "scan"]
      /\ UNCHANGED response

\* Mutant of ServeCached: the cached data is not wrapped into a results list.
ServeCachedUnwrapped(h, company_number, cached_data) ==
    \E t \in now..MaxClock :
      /\ Store(h, t, [results |-> <<>>, network |-> NoNetwork])
      /\ Return(h, [NoResponse EXCEPT !.status = 200, !.success = TRUE,
                                      !.result_id = t, !.from_github_cache = TRUE,
                                      !.company_number = company_number,
                                      !.folder_type = folder_suffix[h]])

\* Lines 188-215: answer from the cached data.
ServeCached(h, company_number, cached_data) ==
    \E t \in now..MaxClock :
      /\ Store(h, t, [results |-> <<cached_data>>, network |-> NoNetwork])
      /\ Return(h, [NoResponse EXCEPT !.status = 200, !.success = TRUE,
                                      !.result_id = t, !.from_github_cache = TRUE,
                                      !.company_number = company_number,
                                      !.folder_type = folder_suffix[h]])

\* Line 186: check_company_exists returns: on True the handler calls
\* get_company_data, on False it goes on to the fresh scan.
scan_cache_lookup(h) ==
    /\ pc[h] = "cache"
    /\ UNCHANGED << others, cvars >>
    /\ UNCHANGED << uploads, known >>
    /\ UNCHANGED << req, search_results, company_numbers, folder_suffix, stored, archive,
                    github, nreq >>
    /\ LET company_number == company_numbers[h][1]
           folder == folder_suffix[h]
       IN  \E exists \in Outcomes(h, StoreOutcomes) :
             LET checked == <<Call("check_company_exists", company_number, folder, exists)>>
             IN  IF exists = "raise"
                 THEN /\ Return(h, ErrorResponse(500, "check_company_exists"))
                      /\ Called(h, checked)
                 ELSE IF exists = "down" \/ ~check_company_exists(github, company_number, folder)
                 THEN EnterScan(h, checked) /\ UNCHANGED response
                 ELSE /\ pc' = [pc EXCEPT ![h] = "cached"]
                      /\ Called(h, checked)
                      /\ UNCHANGED response

\* Lines 187-215: get_company_data returns: with data the handler stores it
\* and answers, with none it goes on to the fresh scan.
scan_cache_read(h) ==
    /\ pc[h] = "cached"
    /\ UNCHANGED << others, cvars >>
    /\ UNCHANGED << uploads, known >>
    /\ UNCHANGED << req, search_results, company_numbers, folder_suffix, archive,
                    github, nreq >>
    /\ LET company_number == company_numbers[h][1]
           folder == folder_suffix[h]
       IN  \E got \in Outcomes(h, StoreOutcomes) :
             LET read == <<Call("get_company_data", company_number, folder, got)>>
             IN  IF got = "raise"
                 THEN /\ Return(h, ErrorResponse(500, "get_company_data"))
                      /\ Called(h, read)
                      /\ UNCHANGED stored
                 ELSE IF got = "down"
                 THEN EnterScan(h, read) /\ UNCHANGED << response, stored >>
                 ELSE /\ Called(h, read)
                      /\ LET cached_data == get_company_data(github, company_number, folder) IN
                            ServeCached(h, company_number, cached_data)

\* Lines 227-247: process_companies returns; its results are stored under a
\* new id, and a single-company scan calls the CSV exporter.
scan_fresh(h) ==
    /\ pc[h] = "scan"
    /\ UNCHANGED << others, cvars >>
    /\ UNCHANGED << uploads, known >>
    /\ UNCHANGED << req, search_results, company_numbers, folder_suffix, archive,
                    github, nreq >>
    /\ \E outcome \in Outcomes(h, {"ok", "raise"}) :
         /\ Called(h, <<Call("process_companies", NoNumber, "", outcome)>>)
         /\ IF outcome = "raise"
            THEN /\ Return(h, ErrorResponse(500, "process_companies"))
                 /\ UNCHANGED stored
            ELSE \E t \in now..MaxClock :
                   /\ Store(h, t, process_companies(company_numbers[h],
                                                    req[h].scan_network,
                                                    req[h].network_depth,
                                                    req[h].active_directors_only,
                                                    req[h].use_ai))
                   /\ pc' = [pc EXCEPT ![h] = IF Len(company_numbers[h]) = 1
                                              THEN "csv" ELSE "cleanup"]
                   /\ UNCHANGED response

\* company_result['_folder_type'] = folder_suffix, on the first slot
TagFolder(res, folder) ==
    [res EXCEPT !.results[1].folder_type = folder]

\* Lines 273-289 and 345-349: the write-through of a single-company scan is
\* one try, and reading an unassigned folder_suffix raises inside it.  The tag
\* is set on the handler's results object, wherever it is held: by the
\* handlers that read it from processing_results, and under its id unless
\* another request has stored under that id since.  Then push_company_data is
\* called; with no write-through the handler calls cleanup_exports.
EnterPush(h, calls) ==
    /\ Called(h, calls)
    /\ IF /\ Len(company_numbers[h]) = 1
          /\ results[h].results # <<>>
          /\ folder_suffix[h] # Unbound
       THEN LET tagged == TagFolder(results[h], folder_suffix[h])
            IN  /\ results' = [k \in Handlers |->
                                 IF results_ref[k] = h THEN tagged ELSE results[k]]
                /\ processing_results' =
                      [id \in DOMAIN processing_results |->
                         IF owner[id] = h THEN tagged ELSE processing_results[id]]
                /\ pc' = [pc EXCEPT ![h] = "push"]
       ELSE /\ UNCHANGED << results, processing_results >>
            /\ pc' = [pc EXCEPT ![h] = "cleanup"]

\* Lines 247-271: export_mismatches returns, having written
\* mismatches_<number>_<result_id>.csv below EXPORTS_DIR; a request with
\* scan_network whose network has connections calls export_network.  A
\* failure is logged.
scan_csv_export(h) ==
    /\ pc[h] = "csv"
    /\ UNCHANGED others
    /\ UNCHANGED << uploads, known >>
    /\ UNCHANGED << req, search_results, company_numbers, folder_suffix, results_ref,
                    result_id, archive, response, owner, session, github, now, nreq >>
    /\ UNCHANGED << existing, removed, returned >>
    /\ LET number == company_numbers[h][1]
           mismatches_csv == ExportFile("mismatches", number, result_id[h], "csv")
       IN  \E outcome \in Outcomes(h, {"ok", "raise"}) :
             LET call == <<Call("export_mismatches", number, "", outcome)>>
             IN  IF outcome = "raise"
                 THEN /\ files' \in Failed(files, mismatches_csv)
                      /\ EnterPush(h, call)
                 ELSE /\ files' = Write(files, mismatches_csv)
                      /\ IF req[h].scan_network /\ HasConnections(results[h].network)
                         THEN /\ pc' = [pc EXCEPT ![h] = "csv_network"]
                              /\ Called(h, call)
                              /\ UNCHANGED << results, processing_results >>
                         ELSE EnterPush(h, call)

\* Lines 262-271: export_network returns, having written
\* network_<number>_<result_id>.csv.
scan_csv_network(h) ==
    /\ pc[h] = "csv_network"
    /\ UNCHANGED others
    /\ UNCHANGED << uploads, known >>
    /\ UNCHANGED << req, search_results, company_numbers, folder_suffix, results_ref,
                    result_id, archive, response, owner, session, github, now, nreq >>
    /\ UNCHANGED << existing, removed, returned >>
    /\ LET number == company_numbers[h][1]
           network_csv == ExportFile("network", number, result_id[h], "csv")
       IN  \E outcome \in Outcomes(h, {"ok", "raise"}) :
             /\ files' \in IF outcome = "ok" THEN {Write(files, network_csv)}
                           ELSE Failed(files, network_csv)
             /\ EnterPush(h, <<Call("export_network", number, "", outcome)>>)

\* The listings of the files pushed after the result (lines 295-298, 310 and
\* 326): pdf_dir.glob("*.pdf") for ./data/<company_number>,
\* export_dir.glob(f"*{company_number}*{result_id}*.csv") and
\* export_dir.glob(f"*{result_id}*.zip") for ./exports.  The handler looks
\* below ./data and ./exports for what the routes write below Config.DATA_DIR
\* and Config.EXPORTS_DIR (lines 247, 252, 406, 413).
UploadKinds == <<"push_pdf", "push_csv", "push_zip">>

UploadListing(kind, fs, company_number, id) ==
    CASE kind = "push_pdf" -> CompanyPdfs(fs, company_number)
      [] kind = "push_csv" -> { f \in fs : /\ f.dir = "exports" /\ f.ext = "csv"
                                           /\ f.name[2] = company_number /\ f.name[3] = id }
      [] kind = "push_zip" -> { f \in fs : /\ f.dir = "exports" /\ f.ext = "zip"
                                           /\ f.name[3] = id }

\* Lines 294-336 after the first `done` loops: the next listing that has a
\* file is taken and its files are pushed one by one; after the last loop the
\* handler calls cleanup_exports.
NextUploads(h, done) ==
    LET todo == { k \in (done + 1)..Len(UploadKinds) :
                    UploadListing(UploadKinds[k], files, company_numbers[h][1],
                                  result_id[h]) # {} }
    IN  IF todo = {}
        THEN /\ pc' = [pc EXCEPT ![h] = "cleanup"]
             /\ uploads' = [uploads EXCEPT ![h] = {}]
        ELSE LET k == CHOOSE n \in todo : \A m \in todo : n <= m
             IN  /\ pc' = [pc EXCEPT ![h] = UploadKinds[k]]
                 /\ uploads' = [uploads EXCEPT ![h] =
                                  UploadListing(UploadKinds[k], files,
                                                company_numbers[h][1], result_id[h])]

\* Lines 289-294: push_company_data returns; the store holds the tagged result
\* when the push succeeded, and the handler goes on to push the company's PDFs
\* and the exports of the result.  After a push that failed it calls
\* cleanup_exports.
scan_push_github(h) ==
    /\ pc[h] = "push"
    /\ UNCHANGED << others, cvars >>
    /\ UNCHANGED << req, search_results, company_numbers, folder_suffix, stored, archive,
                    known, response, nreq >>
    /\ LET company_number == company_numbers[h][1]
           company_result == results[h].results[1]
       IN  \E outcome \in Outcomes(h, StoreOutcomes) :
             /\ Called(h, <<Call("push_company_data", company_number,
                                 company_result.folder_type, outcome)>>)
             /\ IF outcome = "ok"
                THEN /\ github' = push_company_data(github, company_number, company_result)
                     /\ NextUploads(h, 0)
                ELSE /\ pc' = [pc EXCEPT ![h] = "cleanup"]
                     /\ UNCHANGED << github, uploads >>

\* The loop an upload step is in.
UploadLoop(kind) == CHOOSE k \in 1..Len(UploadKinds) : UploadKinds[k] = kind

\* Lines 300, 320 and 330: push_file_to_github returns for one file of the
\* listing, taken in the order the directory gives them.  It answers True or
\* False, or raises, which ends the write-through (line 340); a file that is
\* no longer on disk is not pushed.
scan_push_file(h) ==
    /\ pc[h] \in {"push_pdf", "push_csv", "push_zip"}
    /\ UNCHANGED << others, cvars >>
    /\ UNCHANGED << req, search_results, company_numbers, folder_suffix, stored, archive,
                    known, response, github, nreq >>
    /\ \E f \in uploads[h] :
         \E outcome \in IF OnDisk(files, f) THEN Outcomes(h, StoreOutcomes)
                        ELSE {"down", "raise"} :
           /\ Called(h, <<Call("push_file_to_github", company_numbers[h][1],
                               folder_suffix[h], outcome)>>)
           /\ IF outcome = "raise"
              THEN /\ pc' = [pc EXCEPT ![h] = "cleanup"]
                   /\ uploads' = [uploads EXCEPT ![h] = {}]
              ELSE IF uploads[h] # {f}
              THEN /\ uploads' = [uploads EXCEPT ![h] = uploads[h] \ {f}]
                   /\ UNCHANGED pc
              ELSE NextUploads(h, UploadLoop(pc[h]))

\* Lines 349-350: cleanup_exports(max_age_hours=1) returns and
\* cleanup_data_pdfs is called; unlink may fail on any of the old files, and a
\* call that raises ends the cleanup and is logged.
scan_cleanup(h) ==
    /\ pc[h] = "cleanup"
    /\ UNCHANGED others
    /\ UNCHANGED << uploads, known >>
    /\ UNCHANGED << req, search_results, company_numbers, folder_suffix, stored, archive,
                    response, github, nreq >>
    /\ UNCHANGED existing
    /\ \E outcome \in Outcomes(h, IF "exports" \in existing THEN {"ok", "raise"} ELSE {"ok"}),
          gone \in Unlinked(h, IF "exports" \in existing THEN OldExports(files, 1) ELSE {}) :
          /\ Called(h, <<Call("cleanup_exports", NoNumber, "", outcome)>>)
          /\ IF outcome = "ok"
             THEN /\ UnlinkExports(1, gone)
                  /\ pc' = [pc EXCEPT ![h] = "cleanup_pdfs"]
             ELSE /\ UnlinkRaised("cleanup_exports", 1, gone)
                  /\ pc' = [pc EXCEPT ![h] = "respond"]

\* Lines 350-356: cleanup_data_pdfs(max_age_days=1) returns.
scan_cleanup_pdfs(h) ==
    /\ pc[h] = "cleanup_pdfs"
    /\ UNCHANGED others
    /\ UNCHANGED << uploads, known >>
    /\ UNCHANGED << req, search_results, company_numbers, folder_suffix, stored, archive,
                    response, github, nreq >>
    /\ UNCHANGED existing
    /\ pc' = [pc EXCEPT ![h] = "respond"]
    /\ \E outcome \in Outcomes(h, IF "data" \in existing THEN {"ok", "raise"} ELSE {"ok"}),
          gone \in Unlinked(h, IF "data" \in existing THEN OldDataPdfs(files, 1) ELSE {}) :
          /\ Called(h, <<Call("cleanup_data_pdfs", NoNumber, "", outcome)>>)
          /\ IF outcome = "ok"
             THEN UnlinkDataPdfs(1, gone)
             ELSE UnlinkRaised("cleanup_data_pdfs", 1, gone)

\* Lines 355-373: the response; reading an unassigned folder_suffix raises and
\* the outer handler answers 500.
scan_respond(h) ==
    /\ pc[h] = "respond"
    /\ UNCHANGED << others, cvars >>
    /\ UNCHANGED << uploads, known >>
    /\ UNCHANGED << req, search_results, company_numbers, folder_suffix, stored, archive,
                    trace, github, nreq >>
    /\ IF Len(company_numbers[h]) = 1
       THEN IF folder_suffix[h] = Unbound
            THEN Return(h, ErrorResponse(500, "folder_suffix"))
            ELSE Return(h, [NoResponse EXCEPT !.status = 200, !.success = TRUE,
                                              !.result_id = result_id[h],
                                              !.company_number = company_numbers[h][1],
                                              !.folder_type = folder_suffix[h]])
       ELSE Return(h, [NoResponse EXCEPT !.status = 200, !.success = TRUE,
                                         !.result_id = result_id[h]])

\* ---------------------------------------------------------- the other routes

\* The result ids a client may ask for.
ResultIds == 0..MaxClock

\* The <format> of /api/export/<result_id>/<format>.
Formats == {"csv", "json", "html", "xml"}

\* send_file(path)
SendFile(f) == [NoResponse EXCEPT !.status = 200, !.sent = f]

\* results = processing_results[result_id]: the handler holds the very object
\* that is stored.
ReadStored(h, id) ==
    /\ results' = [results EXCEPT ![h] = processing_results[id]]
    /\ results_ref' = [results_ref EXCEPT ![h] = owner[id]]

\* GET /api/download-pdfs/<result_id> arrives (lines 396-409): an unknown id
\* is answered 404; else the archive pdfs_<timestamp>.zip is to be opened
\* below EXPORTS_DIR.
download_pdfs(h) ==
    /\ Free(h)
    /\ UNCHANGED << others, cvars >>
    /\ UNCHANGED << uploads, known >>
    /\ nreq' = nreq + 1
    /\ UNCHANGED << search_results, company_numbers, folder_suffix, result_id, exported,
                    trace, processing_results, owner, session, github >>
    /\ \E id \in ResultIds :
         /\ req' = [req EXCEPT ![h] = [NoRequest EXCEPT !.scan_mode = "download-pdfs",
                                                        !.result_id = id]]
         /\ IF id \notin DOMAIN processing_results
            THEN /\ Return(h, ErrorResponse(404, "Results not found"))
                 /\ UNCHANGED << results, results_ref, zipf, now >>
            ELSE \E t \in now..MaxClock :
                   /\ now' = t
                   /\ ReadStored(h, id)
                   /\ zipf' = [zipf EXCEPT ![h] =
                                 [NoZip EXCEPT !.path = ExportFile("pdfs", NoNumber, t, "zip")]]
                   /\ pc' = [pc EXCEPT ![h] = "zip_open"]
                   /\ UNCHANGED response

\* Lines 411-427 from the slot `from` of the results on, with pdf_count PDFs
\* in the archive and fs on disk: the PDFs of the next company that has any
\* are listed and the first is to be added; after the last company the
\* archive is closed, and removed again when it holds no PDF.
Archived(h, from, pdf_count, fs, calls) ==
    LET slots == results[h].results
        todo == { k \in from..Len(slots) : CompanyPdfs(fs, slots[k].company_number) # {} }
    IN  /\ Called(h, calls)
        /\ IF todo # {}
           THEN LET k == CHOOSE n \in todo : \A m \in todo : n <= m
                IN  /\ zipf' = [zipf EXCEPT ![h].slot = k,
                                            ![h].listed = CompanyPdfs(fs, slots[k].company_number),
                                            ![h].pdf_count = pdf_count]
                    /\ files' = fs
                    /\ pc' = [pc EXCEPT ![h] = "zip_write"]
                    /\ UNCHANGED response
           ELSE /\ zipf' = [zipf EXCEPT ![h].slot = Len(slots) + 1,
                                        ![h].listed = {},
                                        ![h].pdf_count = pdf_count]
                /\ IF pdf_count > 0
                   THEN files' = fs /\ Return(h, SendFile(zipf[h].path))
                   ELSE IF OnDisk(fs, zipf[h].path)
                   THEN /\ files' = Remove(fs, zipf[h].path)
                        /\ Return(h, ErrorResponse(404, "No PDFs found"))
                   ELSE /\ files' = fs
                        /\ Return(h, ErrorResponse(500, "os.remove"))

\* Line 409: zipfile.ZipFile(zip_path, 'w') returns: the archive is on disk.
download_pdfs_open(h) ==
    /\ pc[h] = "zip_open"
    /\ UNCHANGED others
    /\ UNCHANGED << uploads, known >>
    /\ UNCHANGED << req, search_results, company_numbers, folder_suffix, stored, exported,
                    github, nreq >>
    /\ UNCHANGED << existing, removed, returned >>
    /\ \E outcome \in Outcomes(h, {"ok", "raise"}) :
         LET opened == <<Call("ZipFile", NoNumber, "", outcome)>>
         IN  IF outcome = "raise"
             THEN /\ Return(h, ErrorResponse(500, "ZipFile"))
                  /\ Called(h, opened)
                  /\ UNCHANGED << zipf, files >>
             ELSE Archived(h, 1, 0, Write(files, zipf[h].path), opened)

\* Line 420: zipf.write(pdf_file, arcname) returns for one of the PDFs listed;
\* it raises when the PDF is no longer on disk, and the archive written so far
\* stays below EXPORTS_DIR.
download_pdfs_write(h) ==
    /\ pc[h] = "zip_write"
    /\ UNCHANGED others
    /\ UNCHANGED << uploads, known >>
    /\ UNCHANGED << req, search_results, company_numbers, folder_suffix, stored, exported,
                    github, nreq >>
    /\ UNCHANGED << existing, removed, returned >>
    /\ \E pdf_file \in zipf[h].listed :
         \E outcome \in IF pdf_file \in files THEN Outcomes(h, {"ok", "raise"})
                        ELSE {"raise"} :
           LET wrote == <<Call("zipf.write", pdf_file.folder, "", outcome)>>
               rest == zipf[h].listed \ {pdf_file}
           IN  IF outcome = "raise"
               THEN /\ Return(h, ErrorResponse(500, "zipf.write"))
                    /\ Called(h, wrote)
                    /\ UNCHANGED << zipf, files >>
               ELSE IF rest # {}
               THEN /\ zipf' = [zipf EXCEPT ![h].listed = rest,
                                            ![h].pdf_count = zipf[h].pdf_count + 1]
                    /\ Called(h, wrote)
                    /\ UNCHANGED << pc, response, files >>
               ELSE Archived(h, zipf[h].slot + 1, zipf[h].pdf_count + 1, files, wrote)

\* exporter.export_mismatches, export_full_results or export_report
Exporter(format) ==
    CASE format = "csv"  -> "export_mismatches"
      [] format = "json" -> "export_full_results"
      [] format = "html" -> "export_report"

\* The file the exporter of a format writes in second t.  The CSV exporter is
\* not part of the sources: it is taken to name its files
\* mismatches_<timestamp>.csv and network_<timestamp>.csv, as the exporters of
\* the sources name theirs.
ExportPath(format, t) ==
    CASE format = "csv"  -> ExportFile("mismatches", NoNumber, t, "csv")
      [] format = "json" -> ExportFile("results", NoNumber, t, "json")
      [] format = "html" -> ExportFile("report", NoNumber, t, "html")

\* GET /api/export/<result_id>/<format> arrives (lines 434-472): an unknown id
\* is answered 404 and an unknown format 400; else the exporter of the format
\* is called.
export_results(h) ==
    /\ Free(h)
    /\ UNCHANGED << others, cvars >>
    /\ UNCHANGED << uploads, known >>
    /\ nreq' = nreq + 1
    /\ UNCHANGED << search_results, company_numbers, folder_suffix, result_id, archive,
                    trace, processing_results, owner, session, github, now >>
    /\ \E id \in ResultIds, format \in Formats :
         /\ req' = [req EXCEPT ![h] = [NoRequest EXCEPT !.scan_mode = "export",
                                                        !.result_id = id,
                                                        !.format = format]]
         /\ IF id \notin DOMAIN processing_results
            THEN /\ Return(h, ErrorResponse(404, "Results not found"))
                 /\ UNCHANGED << results, results_ref >>
            ELSE /\ ReadStored(h, id)
                 /\ IF format \notin {"csv", "json", "html"}
                    THEN Return(h, ErrorResponse(400, "Invalid format"))
                    ELSE pc' = [pc EXCEPT ![h] = "export"] /\ UNCHANGED response

\* Lines 445-448, 467, 470 and 474: the exporter returns the path of the file
\* it wrote below EXPORTS_DIR, which is sent, unless the format is csv and the
\* results have a network with connections: then export_network is called.
\* An exporter that raises may leave its file behind.
export_results_write(h) ==
    /\ pc[h] = "export"
    /\ UNCHANGED others
    /\ UNCHANGED << uploads, known >>
    /\ UNCHANGED << req, search_results, company_numbers, folder_suffix, results,
                    results_ref, result_id, zipf, processing_results, owner, session,
                    github, nreq >>
    /\ UNCHANGED << removed, returned >>
    /\ existing' = existing \cup {"exports"}
    /\ \E t \in now..MaxClock, outcome \in Outcomes(h, {"ok", "raise"}) :
         LET file_path == ExportPath(req[h].format, t)
         IN  /\ now' = t
             /\ Called(h, <<Call(Exporter(req[h].format), NoNumber, "", outcome)>>)
             /\ IF outcome = "raise"
                THEN /\ files' \in Failed(files, file_path)
                     /\ Return(h, ErrorResponse(500, Exporter(req[h].format)))
                     /\ UNCHANGED exported
                ELSE /\ files' = Write(files, file_path)
                     /\ exported' = [exported EXCEPT ![h] = <<file_path>>]
                     /\ IF req[h].format = "csv" /\ HasConnections(results[h].network)
                        THEN pc' = [pc EXCEPT ![h] = "export_network"] /\ UNCHANGED response
                        ELSE Return(h, SendFile(file_path))

\* Lines 449-455: export_network returns the path of network_<timestamp>.csv;
\* the archive export_<timestamp>.zip is to be opened.
export_results_network(h) ==
    /\ pc[h] = "export_network"
    /\ UNCHANGED others
    /\ UNCHANGED << uploads, known >>
    /\ UNCHANGED << req, search_results, company_numbers, folder_suffix, results,
                    results_ref, result_id, processing_results, owner, session,
                    github, nreq >>
    /\ UNCHANGED << removed, returned >>
    /\ existing' = existing \cup {"exports"}
    /\ \E t \in now..MaxClock, outcome \in Outcomes(h, {"ok", "raise"}) :
         LET network_file_path == ExportFile("network", NoNumber, t, "csv")
         IN  /\ Called(h, <<Call("export_network", NoNumber, "", outcome)>>)
             /\ IF outcome = "raise"
                THEN /\ now' = t
                     /\ files' \in Failed(files, network_file_path)
                     /\ Return(h, ErrorResponse(500, "export_network"))
                     /\ UNCHANGED archive
                ELSE \E timestamp \in t..MaxClock :
                       /\ now' = timestamp
                       /\ files' = Write(files, network_file_path)
                       /\ exported' = [exported EXCEPT ![h] = Append(@, network_file_path)]
                       /\ zipf' = [zipf EXCEPT ![h] =
                                     [NoZip EXCEPT !.path =
                                         ExportFile("export", NoNumber, timestamp, "zip")]]
                       /\ pc' = [pc EXCEPT ![h] = "export_zip"]
                       /\ UNCHANGED response

\* Line 455: zipfile.ZipFile(zip_path, 'w') returns: the archive is on disk.
export_results_zip(h) ==
    /\ pc[h] = "export_zip"
    /\ UNCHANGED others
    /\ UNCHANGED << uploads, known >>
    /\ UNCHANGED << req, search_results, company_numbers, folder_suffix, stored, archive,
                    github, nreq >>
    /\ UNCHANGED << existing, removed, returned >>
    /\ \E outcome \in Outcomes(h, {"ok", "raise"}) :
         /\ Called(h, <<Call("ZipFile", NoNumber, "", outcome)>>)
         /\ IF outcome = "raise"
            THEN /\ Return(h, ErrorResponse(500, "ZipFile"))
                 /\ UNCHANGED files
            ELSE /\ files' = Write(files, zipf[h].path)
                 /\ pc' = [pc EXCEPT ![h] = "export_zip_write"]
                 /\ UNCHANGED response

\* Lines 456-463: zipf.write returns for the next of the two CSV files; after
\* the second the archive is closed, the two files are removed and the
\* archive is sent.  A write or a removal of a file that is no longer on disk
\* raises.
export_results_zip_write(h) ==
    /\ pc[h] = "export_zip_write"
    /\ UNCHANGED others
    /\ UNCHANGED << uploads, known >>
    /\ UNCHANGED << req, search_results, company_numbers, folder_suffix, stored, archive,
                    github, nreq >>
    /\ UNCHANGED << existing, removed, returned >>
    /\ LET k == Cardinality(CallsOf(h, "zipf.write")) + 1
           path == exported[h][k]
       IN  \E outcome \in IF OnDisk(files, path) THEN Outcomes(h, {"ok", "raise"})
                          ELSE {"raise"} :
             /\ Called(h, <<Call("zipf.write", NoNumber, "", outcome)>>)
             /\ IF outcome = "raise"
                THEN /\ Return(h, ErrorResponse(500, "zipf.write"))
                     /\ UNCHANGED files
                ELSE IF k < Len(exported[h])
                THEN UNCHANGED << pc, response, files >>
                ELSE IF OnDisk(files, exported[h][1])
                THEN /\ files' = Remove(Remove(files, exported[h][1]), exported[h][2])
                     /\ Return(h, SendFile(zipf[h].path))
                ELSE /\ Return(h, ErrorResponse(500, "os.remove"))
                     /\ UNCHANGED files

\* GET /api/rate-limit (lines 480-488): a client built from the environment's
\* key alone; the handler answers 500 when the constructor raises.
rate_limit_status(h) ==
    /\ Free(h)
    /\ UNCHANGED << others, cvars >>
    /\ UNCHANGED << uploads, known >>
    /\ nreq' = nreq + 1
    /\ req' = [req EXCEPT ![h] = [NoRequest EXCEPT !.scan_mode = "rate-limit"]]
    /\ UNCHANGED << search_results, company_numbers, folder_suffix, stored, archive,
                    github >>
    /\ \E env_key \in {"", "env-key"} :
         LET built == ClientInit("", env_key)
         IN  /\ Called(h, << Call("os.environ", NoNumber, "", env_key),
                             Call("CompaniesHouseClient", NoNumber, "", built) >>)
             /\ IF built = "ok"
                THEN Return(h, [NoResponse EXCEPT !.status = 200])
                ELSE Return(h, ErrorResponse(500, built))

Next ==
    \/ \E h \in Handlers : rate_limit_status(h)
    \/ \E h \in Handlers : export_results(h)
    \/ \E h \in Handlers : export_results_write(h)
    \/ \E h \in Handlers : export_results_network(h)
    \/ \E h \in Handlers : export_results_zip(h)
    \/ \E h \in Handlers : export_results_zip_write(h)
    \/ \E h \in Handlers : download_pdfs(h)
    \/ \E h \in Handlers : download_pdfs_open(h)
    \/ \E h \in Handlers : download_pdfs_write(h)
    \/ \E h \in Handlers : scan_receive(h)
    \/ \E h \in Handlers : scan_validate(h)
    \/ \E h \in Handlers : scan_resolve(h)
    \/ \E h \in Handlers : scan_search(h)
    \/ \E h \in Handlers : scan_cache_lookup(h)
    \/ \E h \in Handlers : scan_cache_read(h)
    \/ \E h \in Handlers : scan_fresh(h)
    \/ \E h \in Handlers : scan_csv_export(h)
    \/ \E h \in Handlers : scan_csv_network(h)
    \/ \E h \in Handlers : scan_push_github(h)
    \/ \E h \in Handlers : scan_push_file(h)
    \/ \E h \in Handlers : scan_cleanup(h)
    \/ \E h \in Handlers : scan_cleanup_pdfs(h)
    \/ \E h \in Handlers : scan_respond(h)

Spec == Init /\ [][Next]_<< vars, cvars >>

\* ------------------------------------------------------- reading the trace

CacheOps == {"check_company_exists", "get_company_data", "push_company_data",
             "push_file_to_github"}

\* The request of handler h found its key and the read returned data.
CacheHit(h) == \E i \in CallsOf(h, "get_company_data") : trace[h][i].outcome = "ok"

\* The batch processor ran for handler h and returned.
FreshScanned(h) == \E i \in CallsOf(h, "process_companies") : trace[h][i].outcome = "ok"

\* Handler h is past the resolving of the company numbers.
Resolved(h) ==
    /\ pc[h] \in {"cache", "cached", "scan", "csv", "csv_network", "push", "push_pdf",
                 "push_csv", "push_zip", "cleanup",
                 "cleanup_pdfs", "respond", "done"}
    /\ company_numbers[h] # <<>>

\* Handler h serves a scan request.
Scanning(h) == req[h].scan_mode \in {"specific", "filtered"}

\* ------------------------------------------------------------------ claims

\* C1: a request that resolves to more than one company number never calls
\* the cache store's existence check or read, whatever its cache flag, and
\* it is answered only after the batch processor was run on its companies.
C1_MultiCompanySkipsCache ==
    \A h \in Handlers :
        (Resolved(h) /\ Len(company_numbers[h]) > 1) =>
            /\ CallsOf(h, "check_company_exists") = {}
            /\ CallsOf(h, "get_company_data") = {}
            /\ ~response[h].from_github_cache
            /\ pc[h] = "done" => CallsOf(h, "process_companies") # {}

\* C1 witness: a two-company request with the cache flag set was answered
\* by a fresh scan although its first company is in the cache.
C1_Witness ==
    \E h \in Handlers :
        /\ pc[h] = "done"
        /\ Len(company_numbers[h]) = 2
        /\ req[h].use_github_cache
        /\ response[h].success
        /\ FreshScanned(h)
        /\ \E f \in {OnlyActive, AllDirectors} :
              <<company_numbers[h][1], f>> \in DOMAIN github

\* C2 as stated: on a cache hit no registry client is created, no batch
\* processing runs and nothing is written to the cache store.
C2_HitCreatesNoClient ==
    \A h \in Handlers :
        CacheHit(h) =>
            /\ CallsOf(h, "CompaniesHouseClient") = {}
            /\ CallsOf(h, "process_companies") = {}
            /\ CallsOf(h, "push_company_data") = {}

\* C2 amended: on a cache hit the request is answered from the cached result;
\* no batch processing runs, nothing is written to the cache store, and no
\* registry client is created except the one a filtered-mode request made for
\* its search before the lookup.
C2_HitServedFromCache ==
    \A h \in Handlers :
        CacheHit(h) =>
            /\ CallsOf(h, "process_companies") = {}
            /\ CallsOf(h, "push_company_data") = {}
            /\ Cardinality(CallsOf(h, "CompaniesHouseClient"))
                 = (IF req[h].scan_mode = "filtered" THEN 1 ELSE 0)
            /\ \A c \in CallsOf(h, "CompaniesHouseClient"),
                  e \in CallsOf(h, "check_company_exists") : c < e
            /\ pc[h] = "done" =>
                 /\ response[h].success /\ response[h].from_github_cache
                 /\ results[h].results
                      = << github[<<company_numbers[h][1], folder_suffix[h]>>] >>
                 /\ owner[response[h].result_id] = h =>
                      processing_results[response[h].result_id] = results[h]

\* C2 witness: a filtered-mode request that resolved to one company was
\* answered from the cache.
C2_Witness ==
    \E h \in Handlers :
        /\ pc[h] = "done"
        /\ CacheHit(h)
        /\ req[h].scan_mode = "filtered"
        /\ response[h].from_github_cache
        /\ owner[response[h].result_id] = h

\* C3 as stated: a cache store that fails (constructor, existence check or
\* read raising or unreachable) never makes the request end in an error; the
\* request is answered by a fresh scan instead.
C3_CacheFailureIsMiss ==
    \A h \in Handlers :
        (pc[h] = "done" /\ \E i \in 1..Len(trace[h]) :
                           /\ trace[h][i].op \in {"GitHubStorage", "check_company_exists",
                                                  "get_company_data"}
                           /\ trace[h][i].outcome \in {"down", "raise"})
        => response[h].error \notin {"GitHubStorage", "check_company_exists",
                                     "get_company_data"}

\* C4 as stated: every fresh single-company scan with a non-empty results
\* list writes the company's result to the cache store under the folder of
\* the request's active_only flag, once the result is stored locally.
C4_FreshSingleScanWritesThrough ==
    \A h \in Handlers :
        (/\ pc[h] \in {"cleanup", "cleanup_pdfs", "respond", "done"}
         /\ FreshScanned(h)
         /\ Len(company_numbers[h]) = 1
         /\ results[h].results # <<>>)
        => /\ result_id[h] \in DOMAIN processing_results
           /\ \E i \in CallsOf(h, "push_company_data") :
                /\ trace[h][i].number = company_numbers[h][1]
                /\ trace[h][i].folder = FolderSuffix(req[h].active_directors_only)

\* C5 as stated: a request whose batch ran, some companies failing, is not
\* answered with an error; its results list has one slot per requested
\* company, the failed ones marked as errors and the others populated.
C5_BatchNeverAborts ==
    \A h \in Handlers :
        (/\ pc[h] = "done"
         /\ FreshScanned(h)
         /\ \E i \in 1..Len(company_numbers[h]) :
               company_numbers[h][i] \notin KnownCompanies)
        =>
            /\ response[h].status = 200
            /\ Len(results[h].results) = Len(company_numbers[h])
            /\ \A i \in 1..Len(company_numbers[h]) :
                 /\ results[h].results[i].company_number = company_numbers[h][i]
                 /\ results[h].results[i].error
                      = (company_numbers[h][i] \notin KnownCompanies)

\* The request of handler h lacks a required key.
MissingKey(h) ==
    req[h].ch_api_key = "" \/ (req[h].use_ai /\ req[h].xai_api_key = "")

\* C6: a scan request without the registry key, or with AI extraction and
\* no AI key, is answered 400 at once, in the first step its handler takes:
\* no collaborator is called and the result store, the session and the cache
\* store stay as they were.  A registry client built with no key given and
\* none in the environment fails with ValueError.
C6_MissingKeyRejected ==
    [][ \A h \in Handlers :
        /\ (pc[h] = "validate" /\ MissingKey(h) /\ pc'[h] # pc[h]) =>
            /\ pc'[h] = "done"
            /\ response'[h].status = 400
            /\ ~response'[h].success
            /\ trace'[h] = <<>>
            /\ result_id'[h] = -1
            /\ processing_results' = processing_results
            /\ session' = session
            /\ github' = github
            /\ files' = files
        /\ \A i \in 2..Len(trace'[h]) :
             (/\ trace'[h][i].op = "CompaniesHouseClient"
              /\ trace'[h][i - 1].op = "os.environ"
              /\ trace'[h][i - 1].outcome = "")
             => (trace'[h][i].outcome = "ValueError" /\ response'[h].status = 500)
      ]_vars

\* C6 witness: a request lacked the AI key and was rejected while another
\* one's result is in the result store.
C6_Witness ==
    \E h \in Handlers :
        /\ pc[h] = "done"
        /\ req[h].ch_api_key # "" /\ req[h].use_ai /\ req[h].xai_api_key = ""
        /\ response[h].status = 400
        /\ processing_results # << >>
        /\ session # -1

\* A company number is 8 characters long, digits after an optional prefix
\* of two letters.
IsNormalized(n) ==
    /\ Len(n) = CompanyNumberWidth
    /\ \A i \in 3..Len(n) : n[i] \in {"0", "1", "2", "3", "4", "5", "6", "7", "8", "9"}

\* C7 as stated: every company number given to the cache store's existence
\* check, read or write, or to the batch processor, is 8 characters long
\* and zero-padded.
C7_NumbersNormalized ==
    \A h \in Handlers :
        /\ \A i \in 1..Len(trace[h]) :
             trace[h][i].op \in CacheOps => IsNormalized(trace[h][i].number)
        /\ CallsOf(h, "process_companies") # {} =>
             \A i \in 1..Len(company_numbers[h]) : IsNormalized(company_numbers[h][i])

\* C8: every call of the cache store in a request (existence check, read,
\* write-through and the pushes of its files) uses the same key: the resolved company number and the
\* folder "Only Active Directors" when active_only is set, "Directors"
\* otherwise; the AI flag has no part in it.
C8_CacheKey ==
    \A h \in Handlers :
        \A i \in 1..Len(trace[h]) :
            trace[h][i].op \in CacheOps =>
                /\ trace[h][i].number = company_numbers[h][1]
                /\ req[h].scan_mode = "specific" =>
                     trace[h][i].number
                       = zfill(req[h].company_numbers[1], CompanyNumberWidth)
                /\ req[h].active_directors_only =>
                     trace[h][i].folder = "Only Active Directors"
                /\ ~req[h].active_directors_only => trace[h][i].folder = "Directors"

\* C8 witness: a request with AI extraction looked its key up, missed and
\* wrote its result through.
C8_Witness ==
    \E h \in Handlers :
        /\ req[h].use_ai
        /\ CallsOf(h, "check_company_exists") # {}
        /\ \E i \in CallsOf(h, "push_company_data") : trace[h][i].outcome = "ok"

\* C9 as stated: the result stored for a request that sets scan_network
\* holds a network graph of a traversal seeded with the request's companies.
C9_NetworkScanned ==
    \A h \in Handlers :
        (pc[h] = "done" /\ response[h].success /\ req[h].scan_network) =>
            /\ results[h].network.present
            /\ results[h].network.seeds = company_numbers[h]

\* C10 as stated: results stored under a result_id never change afterwards.
C10_StoredResultImmutable ==
    [][ \A id \in DOMAIN processing_results :
          processing_results'[id] = processing_results[id] ]_vars

\* The key of the single-company request of handler h.
RequestKey(h) ==
    <<company_numbers[h][1], FolderSuffix(req[h].active_directors_only)>>

\* The request of handler h is a later one: it asks for one company, and the
\* store held its key when it arrived.
Later(h) ==
    /\ Len(company_numbers[h]) = 1
    /\ RequestKey(h) \in known[h]

\* The requests that wrote a result under the key of the request of handler h.
Writers(h) ==
    { w \in Handlers \ {h} :
        \E i \in CallsOf(w, "push_company_data") :
            /\ trace[w][i].outcome = "ok"
            /\ <<trace[w][i].number, trace[w][i].folder>> = RequestKey(h) }

\* A ScanResult as far as the cache preserves it: the fields it was written
\* with, '_folder_type' among them; '_metadata' is the store's own.
Preserved(r) == [r EXCEPT !.metadata = FALSE]

\* The outcomes of the existence check and the read of handler h.
Lookups(h) ==
    { trace[h][i].outcome :
        i \in CallsOf(h, "check_company_exists") \cup CallsOf(h, "get_company_data") }

\* The request of handler h was served from the cache with the one result
\* that was written under its key.
ServedWritten(h) ==
    /\ response[h].success /\ response[h].from_github_cache
    /\ Len(results[h].results) = 1
    /\ Writers(h) # {}
    /\ \A w \in Writers(h) :
          Preserved(results[h].results[1]) = Preserved(results[w].results[1])

MaxDay == 2

\* Instants of one day that a datetime can name (midnight, noon, ...).
TicksPerDay == 2

MaxTolerance == 2

\* Longest found_dates list.
MaxFound == 2

\* -------------------------------------------------------- src/date_parser.py

DateTimes == 0..((MaxDay + 1) * TicksPerDay - 1)

DateLists(n) == UNION { [1..k -> DateTimes] : k \in 0..n }

Abs(x) == IF x < 0 THEN -x ELSE x

\* datetime.date(): the calendar day of a datetime.
date_of(dt) == dt \div TicksPerDay

\* timedelta.days: the whole days of a difference, rounded down (a negative
\* difference of half a day has days = -1).
days(delta) == delta \div TicksPerDay

\* Mutant of compare_dates: tolerance 0 compares the datetimes, not the dates.
compare_datetimes(date1, date2, tol) ==
    IF tol = 0
    THEN date1 = date2
    ELSE Abs(days(date1 - date2)) <= tol

\* Lines 187-204.
compare_dates(date1, date2, tol) ==
    IF tol = 0
    THEN date_of(date1) = date_of(date2)
    ELSE Abs(days(date1 - date2)) <= tol

\* Lines 206-225, format 'uk' (%d/%m/%Y): the text names the calendar day only.
format_date(dt) == date_of(dt)

\* Lines 288-294: one mismatch record.
Mismatch(expected, found) ==
    [expected        |-> expected,
     found           |-> found,
     difference_days |-> days(found - expected),
     expected_str    |-> format_date(expected),
     found_str       |-> format_date(found)]

\* Mutant of find_date_mismatches: a found date already reported is skipped.
RECURSIVE find_new_mismatches(_, _, _)
find_new_mismatches(expected, found, tol) ==
    IF found = <<>>
    THEN <<>>
    ELSE LET n     == Len(found)
             front == find_new_mismatches(expected, SubSeq(found, 1, n - 1), tol)
         IN IF /\ ~compare_dates(expected, found[n], tol)
               /\ \A i \in 1..(n - 1) : found[i] # found[n]
            THEN Append(front, Mismatch(expected, found[n]))
            ELSE front

\* Lines 269-296: the loop over found_dates, in order.
RECURSIVE find_date_mismatches(_, _, _)
find_date_mismatches(expected, found, tol) ==
    IF found = <<>>
    THEN <<>>
    ELSE LET n     == Len(found)
             front == find_date_mismatches(expected, SubSeq(found, 1, n - 1), tol)
         IN IF ~compare_dates(expected, found[n], tol)
            THEN Append(front, Mismatch(expected, found[n]))
            ELSE front

DatesInit ==
    /\ AppInit /\ TraversalUnused /\ LimiterInit /\ OthersUnused
    /\ dpc = "start"
    /\ expected_date \in DateTimes
    /\ other_date \in DateTimes
    /\ found_dates \in DateLists(MaxFound)
    /\ tolerance_days \in 0..MaxTolerance
    /\ compared = NotCompared
    /\ mismatches = <<>>

\* compare_dates called on the two dates in both orders, and on the first
\* date with itself.
compare_dates_calls ==
    /\ dpc = "start"
    /\ compared' = [ab |-> compare_dates(expected_date, other_date, tolerance_days),
                    ba |-> compare_dates(other_date, expected_date, tolerance_days),
                    aa |-> compare_dates(expected_date, expected_date, tolerance_days)]
    /\ dpc' = "compared"
    /\ UNCHANGED << vars, tvars, lvars, xvars >>
    /\ UNCHANGED << expected_date, other_date, found_dates, tolerance_days, mismatches >>

find_date_mismatches_call ==
    /\ dpc = "compared"
    /\ mismatches' = find_date_mismatches(expected_date, found_dates, tolerance_days)
    /\ dpc' = "searched"
    /\ UNCHANGED << vars, tvars, lvars, xvars >>
    /\ UNCHANGED << expected_date, other_date, found_dates, tolerance_days, compared >>

DatesNext ==
    \/ compare_dates_calls
    \/ find_date_mismatches_call

SpecDates == DatesInit /\ [][DatesNext]_dvars

\* ------------------------------------------------------ claims on the dates

\* C18: with tolerance 0, compare_dates is reflexive and symmetric, and it
\* returns true exactly when the two datetimes fall on the same calendar day.
C18_SameCalendarDay ==
    (dpc # "start" /\ tolerance_days = 0) =>
        /\ compared.aa
        /\ compared.ab = compared.ba
        /\ compared.ab = (date_of(expected_date) = date_of(other_date))

\* C18 witness: two different times of one day compared equal.
C18_Witness ==
    /\ dpc # "start"
    /\ tolerance_days = 0
    /\ expected_date # other_date
    /\ compared.ab /\ compared.ba

\* C19: with a tolerance above 0, compare_dates(a, b) is true exactly when
\* the absolute difference of a and b in days is at most the tolerance, and
\* so answers the same for (a, b) and (b, a), whatever the times of day.
C19_ToleranceSymmetric ==
    (dpc # "start" /\ tolerance_days > 0) =>
        /\ compared.ab = compared.ba
        /\ compared.ab = (days(Abs(expected_date - other_date)) <= tolerance_days)

\* The found dates compare_dates rejects, by position.
Rejected ==
    { i \in 1..Len(found_dates) :
        ~compare_dates(expected_date, found_dates[i], tolerance_days) }

\* C20: find_date_mismatches returns one discrepancy for each found date
\* that compare_dates rejects, in input order and duplicates included, none
\* for a found date within tolerance, and each discrepancy carries the
\* signed whole-day difference found minus expected.
C20_OneMismatchPerRejected ==
    (dpc = "searched") =>
        /\ Len(mismatches) = Cardinality(Rejected)
        /\ \A k \in 1..Len(mismatches) :
             \E i \in Rejected :
               /\ Cardinality({ j \in Rejected : j < i }) = k - 1
               /\ mismatches[k].expected = expected_date
               /\ mismatches[k].found = found_dates[i]
               /\ mismatches[k].difference_days
                    = (found_dates[i] - expected_date) \div TicksPerDay
        /\ (expected_date = 0 /\ found_dates = << TicksPerDay >> /\ tolerance_days = 0)
              => (Len(mismatches) = 1 /\ mismatches[1].difference_days = 1)

\* C20 witness: a rejected date that was found twice is reported twice.
C20_Witness ==
    /\ dpc = "searched"
    /\ Len(found_dates) = 2
    /\ found_dates[1] = found_dates[2]
    /\ Len(mismatches) = 2
    /\ mismatches[1].difference_days = 1

\* ------------------------------------------- bounds of the network traversal

\* Longest seed list.
MaxSeeds == 2

\* Largest max_depth asked for.
MaxTraversalDepth == 2

\* ------------------------------------------ network traversal (design 4.5, 5)

\* The registry's officer data: who is (or was) a director of which company.
\* C2 is reachable from C1 through two directors; C3's appointment of D2 has
\* ended; the companies form cycles through their shared directors.
Appointments ==
    { [company |-> "C1", director |-> "D1", active |-> TRUE],
      [company |-> "C1", director |-> "D2", active |-> TRUE],
      [company |-> "C2", director |-> "D1", active |-> TRUE],
      [company |-> "C2", director |-> "D2", active |-> TRUE],
      [company |-> "C3", director |-> "D2", active |-> FALSE],
      [company |-> "C3", director |-> "D3", active |-> TRUE],
      [company |-> "C4", director |-> "D3", active |-> TRUE] }

RegisteredCompanies == { a.company : a \in Appointments }

\* C9 is a company number the registry does not know.
SeedChoices == {"C1", "C3", "C9"}

SeedLists(n) == UNION { [1..k -> SeedChoices] : k \in 1..n }

\* The appointments the traversal follows.
Followed(only_active) == { a \in Appointments : only_active => a.active }

\* The directors listed for company c.
directors_of(c, only_active) ==
    { a.director : a \in { x \in Followed(only_active) : x.company = c } }

\* The companies director d is appointed to.
companies_of(d, only_active) ==
    { a.company : a \in { x \in Followed(only_active) : x.director = d } }

\* The director fetch of company c fails: not found, or an upstream error.
FetchFails(c, broken) == c \notin RegisteredCompanies \/ c \in broken

\* Mutant of NewlyReachable: what was found is taken without asking the
\* visited-set.
AllReachable(found, seen) == found

\* What of the found companies (directors) is discovered for the first time.
NewlyReachable(found, seen) == found \ seen

\* Mutant of EnqueueAllowed: one level too many.
EnqueueAllowedOneMore(d, limit) == d <= limit

\* A company discovered while level d is expanded is enqueued for level d + 1
\* only if that level is within max_depth.
EnqueueAllowed(d, limit) == d + 1 <= limit

\* Mutant of AfterFailure: the failed fetch is never given up, and the level
\* waits for it.
StillInFlight(inflight, c) == inflight

\* Mutant of AfterFailure: a failed fetch abandons the fetches in flight.
AbortAfterFailure(inflight, c) == {}

\* A failed fetch removes only that company from further expansion.
AfterFailure(inflight, c) == inflight \ {c}

\* Company c noted in the order of ended fetches.
Ended(order, c) ==
    IF \E i \in 1..Len(order) : order[i] = c THEN order ELSE Append(order, c)

\* One node more for each element of new.
AddNodes(counts, new) ==
    [x \in DOMAIN counts \cup new |->
        (IF x \in DOMAIN counts THEN counts[x] ELSE 0) + (IF x \in new THEN 1 ELSE 0)]

\* Each element of new discovered at depth d.
Discover(seen, new, d) ==
    [x \in DOMAIN seen \cup new |-> IF x \in DOMAIN seen THEN seen[x] ELSE d]

Statistics(g, d) ==
    [total_companies   |-> Cardinality(DOMAIN g.companies),
     total_directors   |-> Cardinality(DOMAIN g.directors),
     total_connections |-> Cardinality(g.connections),
     depth_reached     |-> d]

TraversalInit ==
    /\ AppInit /\ DatesUnused /\ LimiterInit /\ OthersUnused
    /\ tpc = "seeding"
    /\ seeds \in SeedLists(MaxSeeds)
    /\ max_depth \in 0..MaxTraversalDepth
    /\ active_only \in BOOLEAN
    /\ failing \in SUBSET {"C2", "C3"}
    /\ TraversalStart

\* The next seed of the list starts at depth 0, unless it was taken already.
enqueue_seed ==
    /\ tpc = "seeding"
    /\ seeded < Len(seeds)
    /\ LET new == NewlyReachable({seeds[seeded + 1]}, DOMAIN visited)
       IN /\ visited' = Discover(visited, new, 0)
          /\ frontier' = frontier \cup new
          /\ network' = [network EXCEPT !.companies = AddNodes(@, new)]
    /\ seeded' = seeded + 1
    /\ tpc' = IF seeded' = Len(seeds) THEN "level" ELSE "seeding"
    /\ UNCHANGED << seeds, max_depth, active_only, failing, depth, fetching,
                    next_frontier, expanded, finished >>
    /\ UNCHANGED << vars, dvars, lvars, xvars >>

\* A worker takes a company of the level and starts its director fetch.
start_fetch ==
    /\ tpc = "level"
    /\ \E c \in frontier :
         /\ frontier' = frontier \ {c}
         /\ fetching' = fetching \cup {c}
         /\ expanded' = AddNodes(expanded, {c})
    /\ UNCHANGED << tpc, seeds, max_depth, active_only, failing, seeded, depth,
                    next_frontier, visited, network, finished >>
    /\ UNCHANGED << vars, dvars, lvars, xvars >>

\* A director fetch returns; holding the lock of the visited-set, the worker
\* records the directors, the connections and the companies discovered.
finish_fetch ==
    /\ tpc = "level"
    /\ \E c \in fetching :
         /\ ~FetchFails(c, failing)
         /\ LET dirs     == directors_of(c, active_only)
                found    == UNION { companies_of(d, active_only) : d \in dirs }
                new_dirs == NewlyReachable(dirs, DOMAIN network.directors)
                new_cos  == IF EnqueueAllowed(depth, max_depth)
                            THEN NewlyReachable(found, DOMAIN visited)
                            ELSE {}
            IN /\ visited' = Discover(visited, new_cos, depth + 1)
               /\ next_frontier' = next_frontier \cup new_cos
               /\ network' = [network EXCEPT
                                !.companies = AddNodes(@, new_cos),
                                !.directors = AddNodes(@, new_dirs),
                                !.connections = @ \cup { <<c, d>> : d \in dirs }]
         /\ fetching' = fetching \ {c}
         /\ finished' = Ended(finished, c)
    /\ UNCHANGED << tpc, seeds, max_depth, active_only, failing, seeded, depth,
                    frontier, expanded >>
    /\ UNCHANGED << vars, dvars, lvars, xvars >>

\* A director fetch fails: a warning, and the company is expanded no further.
fail_fetch ==
    /\ tpc = "level"
    /\ \E c \in fetching :
         /\ FetchFails(c, failing)
         /\ fetching' = AfterFailure(fetching, c)
         /\ network' = [network EXCEPT !.warnings = @ \cup {c}]
         /\ finished' = Ended(finished, c)
    /\ UNCHANGED << tpc, seeds, max_depth, active_only, failing, seeded, depth,
                    frontier, next_frontier, visited, expanded >>
    /\ UNCHANGED << vars, dvars, lvars, xvars >>

\* The level is done: the traversal ends when nothing is enqueued or
\* max_depth is reached, and goes one level deeper otherwise.
next_level ==
    /\ tpc = "level"
    /\ frontier = {}
    /\ fetching = {}
    /\ IF next_frontier = {} \/ depth >= max_depth
       THEN /\ tpc' = "done"
            /\ network' = [network EXCEPT !.statistics = Statistics(network, depth)]
            /\ UNCHANGED << depth, frontier, next_frontier >>
       ELSE /\ depth' = depth + 1
            /\ frontier' = next_frontier
            /\ next_frontier' = {}
            /\ UNCHANGED << tpc, network >>
    /\ UNCHANGED << seeds, max_depth, active_only, failing, seeded, fetching,
                    visited, expanded, finished >>
    /\ UNCHANGED << vars, dvars, lvars, xvars >>

TraversalNext ==
    \/ enqueue_seed
    \/ start_fetch
    \/ finish_fetch
    \/ fail_fetch
    \/ next_level

SpecTraversal == TraversalInit /\ [][TraversalNext]_tvars

\* Every fetch in flight ends and the level loop keeps running.
SpecTraversalFair == SpecTraversal /\ WF_tvars(TraversalNext)

\* ------------------------------------------------- claims on the traversal

SeedSet == { seeds[i] : i \in 1..Len(seeds) }

\* C12: whatever the interleaving of the director fetches of a level, no
\* company is enqueued or visited twice: a company has exactly one node,
\* also when two directors lead to it, and its directors are fetched at most
\* once.
C12_NoCompanyTwice ==
    /\ \A c \in DOMAIN network.companies : network.companies[c] = 1
    /\ \A c \in DOMAIN expanded : expanded[c] <= 1
    /\ DOMAIN network.companies = DOMAIN visited
    /\ frontier \cap fetching = {}
    /\ \A c \in frontier \cup fetching : c \notin next_frontier

\* C12 witness: two seeds whose fetches ended in the reverse order both lead
\* to C2, C1 through two directors, and C2 is one node, expanded once.
C12_Witness ==
    /\ tpc = "done"
    /\ seeds = << "C1", "C3" >>
    /\ Len(finished) >= 2 /\ finished[1] = "C3" /\ finished[2] = "C1"
    /\ "C2" \in DOMAIN network.companies
    /\ network.companies["C2"] = 1
    /\ "C2" \in DOMAIN expanded /\ expanded["C2"] = 1
    /\ { <<"C2", "D1">>, <<"C2", "D2">> } \subseteq network.connections

\* The directors listed for the seeds whose fetch succeeds.
SeedDirectors ==
    UNION { directors_of(c, active_only) : c \in { x \in SeedSet : ~FetchFails(x, failing) } }

\* C13: the traversal never goes beyond max_depth: every company of the
\* graph was discovered at a depth of at most max_depth, depth_reached is
\* at most max_depth, and with max_depth = 0 the graph holds the seed
\* companies and their directly listed directors only.
C13_DepthBounded ==
    /\ depth <= max_depth
    /\ \A c \in DOMAIN network.companies : visited[c] <= max_depth
    /\ network.statistics.depth_reached <= max_depth
    /\ (max_depth = 0 /\ tpc \in {"level", "done"}) =>
          /\ DOMAIN network.companies = SeedSet
          /\ DOMAIN network.directors \subseteq SeedDirectors
          /\ \A e \in network.connections : e[1] \in SeedSet
    /\ (max_depth = 0 /\ tpc = "done") => DOMAIN network.directors = SeedDirectors

\* C13 witness: a traversal of depth 0 ended with the seed and its two
\* directors, though other companies are reachable through them.
C13_Witness ==
    /\ tpc = "done"
    /\ max_depth = 0
    /\ seeds = << "C1" >>
    /\ DOMAIN network.companies = {"C1"}
    /\ DOMAIN network.directors = {"D1", "D2"}
    /\ network.statistics.depth_reached = 0

\* C14: the traversal always terminates, with an empty frontier or at
\* max_depth, also on officer data with cycles and with failing fetches.
C14_Terminates == <>(tpc = "done")

\* C14 witness: a traversal over the cycle C1 - D1 - C2 - D2 - C1, with a
\* failing fetch, has ended.
C14_Witness ==
    /\ tpc = "done"
    /\ { <<"C1", "D1">>, <<"C2", "D1">>, <<"C2", "D2">>, <<"C1", "D2">> }
         \subseteq network.connections
    /\ network.warnings # {}
    /\ frontier = {} /\ fetching = {}
    /\ (next_frontier = {} \/ depth = max_depth)

\* The graph of a traversal that expands the companies of a level one after
\* the other: level by level from the companies of `level`, g being the graph
\* so far and seen the companies discovered so far.
RECURSIVE LevelByLevel(_, _, _, _)
LevelByLevel(level, seen, d, g) ==
    LET ok    == { c \in level : ~FetchFails(c, failing) }
        dirs  == UNION { directors_of(c, active_only) : c \in ok }
        found == UNION { companies_of(x, active_only) : x \in dirs }
        new   == IF d + 1 <= max_depth THEN found \ seen ELSE {}
        g2    == [companies   |-> g.companies \cup new,
                  directors   |-> g.directors \cup dirs,
                  connections |-> g.connections \cup
                                    UNION { { <<c, x>> : x \in directors_of(c, active_only) } : c \in ok },
                  warnings    |-> g.warnings \cup (level \ ok)]
    IN IF new = {}
       THEN [graph |-> g2, depth_reached |-> d]
       ELSE LevelByLevel(new, seen \cup new, d + 1, g2)

Sequential ==
    LevelByLevel(SeedSet, SeedSet, 0,
                 [companies |-> SeedSet, directors |-> {}, connections |-> {},
                  warnings |-> {}])

\* C15: the graph depends on the seeds, max_depth, active_only and the
\* upstream data only: whatever the interleaving of the fetches, the
\* traversal ends with the company nodes, director nodes, connections and
\* statistics of the traversal that expands one company after the other.
C15_Deterministic ==
    (tpc = "done") =>
        /\ DOMAIN network.companies = Sequential.graph.companies
        /\ DOMAIN network.directors = Sequential.graph.directors
        /\ network.connections = Sequential.graph.connections
        /\ network.warnings = Sequential.graph.warnings
        /\ network.statistics =
             [total_companies   |-> Cardinality(Sequential.graph.companies),
              total_directors   |-> Cardinality(Sequential.graph.directors),
              total_connections |-> Cardinality(Sequential.graph.connections),
              depth_reached     |-> Sequential.depth_reached]

\* C15 witness: a traversal of two levels, one fetch of which failed, ended
\* with its fetches in another order than that of the seed list.
C15_Witness ==
    /\ tpc = "done"
    /\ seeds = << "C1", "C3" >>
    /\ failing = {"C2"}
    /\ finished[1] = "C3"
    /\ network.statistics.depth_reached = 1
    /\ network.statistics.total_companies = 4

\* ---------------------------------------------- bounds of the rate limiter

\* Length of the limiter's window, in ticks.
WindowTicks == 1

\* Longest deadline a caller gives, in ticks.
MaxDeadline == 1

\* Registry calls are started during the first MaxWindows windows.
MaxWindows == 1

\* ------------------------------------------------ rate limiter (design 4.1, 5)

\* The window budget (src/test_api_client.py line 31).
max_requests == 600

Deadlines == {-1} \cup (0..MaxDeadline)

\* The window that started `t` ticks ago is over.
WindowExpired(t) == t >= WindowTicks

\* Mutant of CanGrant: the budget is compared one off.
CanGrantOneMore(made, t) == WindowExpired(t) \/ made <= max_requests

\* A call can be granted now: the budget is not used up, or a new window is due.
CanGrant(made, t) == WindowExpired(t) \/ made < max_requests

\* Mutant of Counted: the call that starts a window is not counted in it.
CountedLostAtRollover(made, t) == IF WindowExpired(t) THEN 0 ELSE made + 1

\* The counter after a grant: the first of a new window, or one more.
Counted(made, t) == IF WindowExpired(t) THEN 1 ELSE made + 1

\* Mutant of MayFail: an exhausted budget fails the call at once.
FailsWhenExhausted(deadline) == TRUE

\* A waiting call fails only once the deadline its caller gave has elapsed.
MayFail(deadline) == deadline = 0

\* get_rate_limit_status() (src/test_api_client.py lines 28-31,
\* src/app.py line 484).
get_rate_limit_status ==
    [remaining_requests |-> IF WindowExpired(elapsed)
                            THEN max_requests
                            ELSE max_requests - requests_made,
     max_requests       |-> max_requests]

\* The callers after a step that leaves the limiter with counter `made` at
\* `t` ticks: who waits with the budget exhausted is blocked.
NoteBlocked(cs, made, t) ==
    [w \in Workers |->
        IF cs[w].state = "waiting" /\ ~CanGrant(made, t)
        THEN [cs[w] EXCEPT !.blocked = TRUE]
        ELSE cs[w]]

SpecLimiterInit ==
    /\ AppInit /\ DatesUnused /\ TraversalUnused /\ OthersUnused
    /\ LimiterInit

\* Worker w starts a registry call, with or without a deadline.
call_registry(w) ==
    /\ callers[w].state # "waiting"
    /\ window_no < MaxWindows
    /\ \E dl \in Deadlines :
         callers' = NoteBlocked(
                      [callers EXCEPT ![w] = [state |-> "waiting", deadline |-> dl,
                                              blocked |-> FALSE]],
                      requests_made, elapsed)
    /\ UNCHANGED << requests_made, elapsed, window_no, window_grants, at_boundary >>
    /\ UNCHANGED << vars, dvars, tvars, xvars >>

\* The limiter grants the call of worker w: one atomic step on its counters,
\* which starts a new window first when the current one is over.
acquire(w) ==
    /\ callers[w].state = "waiting"
    /\ CanGrant(requests_made, elapsed)
    /\ requests_made' = Counted(requests_made, elapsed)
    /\ elapsed' = IF WindowExpired(elapsed) THEN 0 ELSE elapsed
    /\ window_no' = IF WindowExpired(elapsed) /\ window_no < MaxWindows
                    THEN window_no + 1
                    ELSE window_no
    /\ window_grants' = IF WindowExpired(elapsed) THEN 1 ELSE window_grants + 1
    /\ at_boundary' = IF WindowExpired(elapsed)
                      THEN elapsed = WindowTicks
                      ELSE at_boundary
    /\ callers' = NoteBlocked([callers EXCEPT ![w].state = "granted"],
                              requests_made', elapsed')
    /\ UNCHANGED << vars, dvars, tvars, xvars >>

\* The call of worker w fails with RateLimitExceeded.
give_up(w) ==
    /\ callers[w].state = "waiting"
    /\ ~CanGrant(requests_made, elapsed)
    /\ MayFail(callers[w].deadline)
    /\ callers' = [callers EXCEPT ![w].state = "failed"]
    /\ UNCHANGED << requests_made, elapsed, window_no, window_grants, at_boundary >>
    /\ UNCHANGED << vars, dvars, tvars, xvars >>

\* Time passes: the window ages and the deadlines of the waiting calls run.
tick ==
    /\ \/ elapsed <= WindowTicks
       \/ \E w \in Workers : callers[w].state = "waiting" /\ callers[w].deadline > 0
    /\ elapsed' = IF elapsed <= WindowTicks THEN elapsed + 1 ELSE elapsed
    /\ callers' = [w \in Workers |->
                     IF callers[w].state = "waiting" /\ callers[w].deadline > 0
                     THEN [callers[w] EXCEPT !.deadline = @ - 1]
                     ELSE callers[w]]
    /\ UNCHANGED << requests_made, window_no, window_grants, at_boundary >>
    /\ UNCHANGED << vars, dvars, tvars, xvars >>

LimiterNext ==
    \/ \E w \in Workers : call_registry(w)
    \/ \E w \in Workers : acquire(w)
    \/ \E w \in Workers : give_up(w)
    \/ tick

SpecLimiter == SpecLimiterInit /\ [][LimiterNext]_lvars

\* Time passes, and a waiting call that can be granted, or can fail, does so.
SpecLimiterFair ==
    /\ SpecLimiter
    /\ WF_lvars(tick)
    /\ \A w \in Workers : WF_lvars(acquire(w)) /\ WF_lvars(give_up(w))

\* ---------------------------------------------- claims on the rate limiter

\* C16: whatever the interleaving of the workers, the limiter grants at most
\* its budget of 600 calls in one window; the remaining budget it reports
\* stays within 0..max_requests and is above 0 for a new limiter; every
\* granted call, one made exactly at a window boundary included, is counted
\* in exactly one window.
C16_BudgetPerWindow ==
    /\ get_rate_limit_status.max_requests = 600
    /\ get_rate_limit_status.remaining_requests \in 0..max_requests
    /\ window_grants <= max_requests
    /\ window_grants = requests_made
    /\ (window_no = 0 /\ elapsed = 0 /\ window_grants = 0) =>
          get_rate_limit_status.remaining_requests > 0

\* C16 witness: both workers waited with the budget of the first window used
\* up; the call of one, made exactly at the boundary, started the next
\* window, whose counter holds their two calls.
C16_Witness ==
    /\ at_boundary
    /\ window_no = 1
    /\ window_grants = 2
    /\ get_rate_limit_status.remaining_requests = max_requests - 2
    /\ \A w \in Workers : callers[w].state = "granted" /\ callers[w].blocked

\* C17: a registry call made with the budget exhausted blocks and is granted
\* once the next window has started; it fails (RateLimitExceeded) only if
\* its caller gave a deadline and the deadline has elapsed; no call waits
\* for ever.
C17_BlockedCallGranted ==
    /\ \A w \in Workers :
         (callers[w].state = "waiting") ~> (callers[w].state \in {"granted", "failed"})
    /\ \A w \in Workers :
         (callers[w].state = "waiting" /\ callers[w].deadline = -1)
            ~> (callers[w].state = "granted")
    /\ [](\A w \in Workers : callers[w].state = "failed" => callers[w].deadline = 0)

\* C17 witness: a call without deadline that had blocked was granted in a
\* later window, and a call whose deadline elapsed has failed.
C17_Witness ==
    /\ callers["w1"].state = "granted"
    /\ callers["w1"].blocked
    /\ callers["w1"].deadline = -1
    /\ window_no > 0
    /\ callers["w2"].state = "failed"

\* C28: every discrepancy find_date_mismatches reports has a difference_days
\* other than 0, above 0 when the found date is later than the expected one
\* and below 0 when it is earlier, whatever the times of day and the tolerance.
C28_DifferenceNonZero ==
    (dpc = "searched") =>
        \A k \in 1..Len(mismatches) :
            /\ mismatches[k].difference_days # 0
            /\ (mismatches[k].found > mismatches[k].expected)
                  => mismatches[k].difference_days > 0
            /\ (mismatches[k].found < mismatches[k].expected)
                  => mismatches[k].difference_days < 0

\* ------------------------------------------- further claims on the handler

\* How many records the searches for the k letters from `letter` on return.
RECURSIVE Accumulated(_, _)
Accumulated(letter, k) ==
    IF k = 0 THEN 0
    ELSE Len(search_companies(letter)) + Accumulated(letter + 1, k - 1)

\* The search calls handler h has issued: those that returned and the one it
\* waits in.
SearchesIssued(h) ==
    Cardinality(CallsOf(h, "search_companies")) + (IF pc[h] = "search" THEN 1 ELSE 0)

\* C23: in filtered mode the batch processor is handed at most `limit`
\* companies, whatever the search returns and whichever client-side filter is
\* set; the alphabetical search makes at most 5 search calls, and none after
\* the accumulated results have reached the limit.
C23_FilteredWithinLimit ==
    \A h \in Handlers :
        req[h].scan_mode = "filtered" =>
            /\ pc[h] \notin {"validate", "resolve", "search"} =>
                  /\ Len(company_numbers[h]) <= req[h].filters.limit
                  /\ CallsOf(h, "process_companies") # {} =>
                        Len(company_numbers[h]) <= req[h].filters.limit
            /\ (req[h].filters.alpha_start # 0 /\ req[h].filters.alpha_end # 0) =>
                  /\ SearchesIssued(h) <= 5
                  /\ \A k \in 1..(SearchesIssued(h) - 1) :
                        Accumulated(req[h].filters.alpha_start, k) < req[h].filters.limit

\* C23 witness: the search for the first letter reached the limit of 1, the
\* second letter of the range was not searched, and the batch processor ran
\* on one company.
C23_Witness ==
    \E h \in Handlers :
        /\ pc[h] = "done"
        /\ req[h].scan_mode = "filtered"
        /\ req[h].filters.alpha_start = 65 /\ req[h].filters.alpha_end = 66
        /\ req[h].filters.limit = 1
        /\ Cardinality(CallsOf(h, "search_companies")) = 1
        /\ Len(company_numbers[h]) = 1
        /\ CallsOf(h, "process_companies") # {}

\* The batch processing of the request of handler h returned.
Processed(h) ==
    \E i \in CallsOf(h, "process_companies") : trace[h][i].outcome = "ok"

\* C25: a scan request with the required keys that resolves to at least one
\* company and whose batch processing returns is answered with a success
\* response carrying a result_id, for every cache flag, number of companies
\* and other flags; and a request during which a result was stored answers
\* with a success response.
C25_ProcessedMeansSuccess ==
    \A h \in Handlers :
        (pc[h] = "done" /\ Scanning(h)) =>
            /\ Processed(h) => (/\ response[h].success /\ response[h].status = 200
                                /\ response[h].result_id = result_id[h]
                                /\ result_id[h] # -1)
            /\ result_id[h] # -1 => response[h].success

\* C26: every completed scan request gets a result_id of its own: the id a
\* request stores its result under is not one another request stored a
\* result under, so no stored result is replaced by another request's.
C26_OwnResultId ==
    [][ \A h \in Handlers :
          (result_id'[h] # result_id[h] /\ result_id'[h] # -1)
              => result_id'[h] \notin DOMAIN processing_results ]_vars

\* A step after the fresh scan of handler h failed: CSV export, remote push
\* or cleanup.
LateFailure(h) ==
    \E i \in CallsOf(h, "export_mismatches") \cup CallsOf(h, "export_network")
             \cup CallsOf(h, "push_company_data") \cup CallsOf(h, "push_file_to_github")
             \cup CallsOf(h, "cleanup_exports") \cup CallsOf(h, "cleanup_data_pdfs") :
        trace[h][i].outcome # "ok"

\* C27: a failure of the CSV export, of the push to the remote store or of
\* the disk cleanup after a fresh scan leaves the result stored under its
\* result_id and the response the success response of the request.
C27_LateFailureHarmless ==
    \A h \in Handlers :
        (pc[h] = "done" /\ Processed(h) /\ LateFailure(h)) =>
            /\ result_id[h] \in DOMAIN processing_results
            /\ results[h].results # <<>>
            /\ response[h].success /\ response[h].status = 200
            /\ response[h].result_id = result_id[h]

\* ------------------------------------------------------- date extraction
\*
\* DateParser.extract_dates and its siblings (src/date_parser.py lines
\* 50-185 and 226-250).  A text is taken as what the regular expressions
\* find in it: the captures of the context patterns, the matches of
\* DATE_PATTERNS and the (start, end) captures of the range pattern, each
\* given by what dateparser.parse makes of it: nothing ("None"), an exception
\* ("raises") or a datetime.  A datetime has a year, a place within the year
\* (tick) and may carry a time zone (aware), which dateparser sets when the
\* string names one.  What a call did is [raised, value]: the exception it
\* raised, if any, and the value it returned.

\* Python's None, and dateparser raising, in the place of a datetime.
None == [kind |-> "None", year |-> 0, tick |-> 0, aware |-> FALSE]
Raises == [kind |-> "raises", year |-> 0, tick |-> 0, aware |-> FALSE]
DateTime(y, t, a) == [kind |-> "datetime", year |-> y, tick |-> t, aware |-> a]

Returned(v) == [raised |-> "None", value |-> v]
Raised(e) == [raised |-> e, value |-> <<>>]

\* The most matches of one kind in a text.
MaxMatches == 2

\* Years on both sides of the accepted range, and far outside it.
CandidateYears == {1799, 1800, 2100, 9999}

\* What dateparser.parse makes of a DATE_PATTERNS match: a bare date.
PlainCandidates ==
    {None, Raises} \cup { DateTime(y, 0, FALSE) : y \in CandidateYears }

\* What dateparser.parse makes of a context capture, up to 30 characters of
\* the line: also a date with a time of day, or with a time zone.
ScopedCandidates ==
    PlainCandidates \cup
    { DateTime(1800, 1, FALSE), DateTime(1800, 0, TRUE) }

\* The sequences over S of length at most n.
SeqsUpTo(S, n) == UNION { [1..k -> S] : k \in 0..n }

\* CONTEXT_PATTERNS.keys()
KnownContexts == {"incorporation", "name_change", "registration", "filing"}

\* The context arguments tried: absent, two known ones and an unknown one.
Contexts == {"None", "incorporation", "name_change", "memo"}

IsDateTime(c) == c.kind = "datetime"

\* Mutant of parse_date: the year is not checked.
parse_date_any_year(c) ==
    IF IsDateTime(c) THEN c ELSE None

\* parse_date: the parsed datetime if its year is within 1800..2100, else
\* None; an exception of dateparser is caught (lines 141-153).
parse_date(c) ==
    IF IsDateTime(c) /\ 1800 <= c.year /\ c.year <= 2100 THEN c ELSE None

\* The parsed dates of a list of matches, in match order (the loops of
\* _extract_with_context and _extract_all_dates).
RECURSIVE ParsedOf(_)
ParsedOf(matches) ==
    IF matches = <<>> THEN <<>>
    ELSE LET d == parse_date(Head(matches))
         IN  (IF d # None THEN <<d>> ELSE <<>>) \o ParsedOf(Tail(matches))

\* _extract_with_context(text, context): the captures are those of the
\* patterns of the context, none for a context without patterns.
extract_with_context(sm, ctx) ==
    IF ctx \in KnownContexts THEN ParsedOf(sm) ELSE <<>>

\* _extract_all_dates(text)
extract_all_dates(pm) == ParsedOf(pm)

\* datetime.__lt__ on two datetimes that are both naive or both aware.
Earlier(a, b) ==
    \/ a.year < b.year
    \/ a.year = b.year /\ a.tick < b.tick

\* list.sort() on datetimes, ascending.
RECURSIVE SortDates(_)
SortDates(S) ==
    IF S = {} THEN <<>>
    ELSE LET m == CHOOSE a \in S : \A b \in S \ {a} : Earlier(a, b)
         IN  <<m>> \o SortDates(S \ {m})

\* A set of datetimes that list.sort() cannot order: comparing a naive and
\* an aware datetime raises TypeError.
Unorderable(S) ==
    \E a, b \in S : a.aware /\ ~b.aware

Range(f) == { f[i] : i \in DOMAIN f }

\* extract_dates(text, context), lines 61-76.
extract_dates(sm, pm, ctx) ==
    LET context_dates == IF ctx # "None" /\ ctx \in KnownContexts
                         THEN extract_with_context(sm, ctx) ELSE <<>>
        dates == context_dates \o extract_all_dates(pm)
        unique_dates == Range(dates)
    IN  IF Unorderable(unique_dates) THEN Raised("TypeError")
        ELSE Returned(SortDates(unique_dates))

\* extract_date_ranges(text), lines 165-185.
RECURSIVE extract_date_ranges(_)
extract_date_ranges(rm) ==
    IF rm = <<>> THEN <<>>
    ELSE LET start_date == parse_date(Head(rm)[1])
             end_date == parse_date(Head(rm)[2])
         IN  (IF start_date # None /\ end_date # None
              THEN << [start_date |-> start_date, end_date |-> end_date] >>
              ELSE <<>>) \o extract_date_ranges(Tail(rm))

\* dates[0] if dates else None (lines 236-237 and 249-250).
FirstOrNone(dates) == IF dates # <<>> THEN dates[1] ELSE None

extract_incorporation_date(sm) ==
    FirstOrNone(extract_with_context(sm, "incorporation"))

extract_name_change_date(sm) ==
    FirstOrNone(extract_with_context(sm, "name_change"))

\* parse_date(date_string)
parse_date_call ==
    /\ epc = "idle"
    /\ \E c \in ScopedCandidates :
          /\ scoped_matches' = <<c>>
          /\ extracted' = Returned(parse_date(c))
    /\ epc' = "parse_date"
    /\ UNCHANGED << context, plain_matches, range_matches >>
    /\ UNCHANGED << vars, dvars, tvars, lvars, cvars, rvars >>

\* extract_dates(text, context)
extract_dates_call ==
    /\ epc = "idle"
    /\ \E ctx \in Contexts, sm \in SeqsUpTo(ScopedCandidates, MaxMatches),
          pm \in SeqsUpTo(PlainCandidates, MaxMatches) :
          /\ context' = ctx
          /\ scoped_matches' = sm
          /\ plain_matches' = pm
          /\ extracted' = extract_dates(sm, pm, ctx)
    /\ epc' = "extract_dates"
    /\ UNCHANGED range_matches
    /\ UNCHANGED << vars, dvars, tvars, lvars, cvars, rvars >>

\* extract_date_ranges(text)
extract_date_ranges_call ==
    /\ epc = "idle"
    /\ \E rm \in SeqsUpTo(PlainCandidates \X PlainCandidates, MaxMatches) :
          /\ range_matches' = rm
          /\ extracted' = Returned(extract_date_ranges(rm))
    /\ epc' = "extract_date_ranges"
    /\ UNCHANGED << context, scoped_matches, plain_matches >>
    /\ UNCHANGED << vars, dvars, tvars, lvars, cvars, rvars >>

\* extract_incorporation_date(text)
extract_incorporation_date_call ==
    /\ epc = "idle"
    /\ \E sm \in SeqsUpTo(ScopedCandidates, MaxMatches) :
          /\ scoped_matches' = sm
          /\ extracted' = Returned(extract_incorporation_date(sm))
    /\ epc' = "extract_incorporation_date"
    /\ context' = "incorporation"
    /\ UNCHANGED << plain_matches, range_matches >>
    /\ UNCHANGED << vars, dvars, tvars, lvars, cvars, rvars >>

\* extract_name_change_date(text)
extract_name_change_date_call ==
    /\ epc = "idle"
    /\ \E sm \in SeqsUpTo(ScopedCandidates, MaxMatches) :
          /\ scoped_matches' = sm
          /\ extracted' = Returned(extract_name_change_date(sm))
    /\ epc' = "extract_name_change_date"
    /\ context' = "name_change"
    /\ UNCHANGED << plain_matches, range_matches >>
    /\ UNCHANGED << vars, dvars, tvars, lvars, cvars, rvars >>

ExtractInit ==
    /\ AppInit /\ DatesUnused /\ TraversalUnused /\ LimiterInit
    /\ CleanupUnused /\ ReportsIdle
    /\ ExtractIdle

ExtractNext ==
    \/ parse_date_call
    \/ extract_dates_call
    \/ extract_date_ranges_call
    \/ extract_incorporation_date_call
    \/ extract_name_change_date_call

SpecExtract == ExtractInit /\ [][ExtractNext]_evars

\* ------------------------------------------- claims on the date extraction

\* The dates one strategy parsed, as a set.
ScopedDates == IF context \in KnownContexts
               THEN Range(extract_with_context(scoped_matches, context)) ELSE {}
UnscopedDates == Range(extract_all_dates(plain_matches))

\* C21: extract_dates returns the union of the dates of the context-scoped
\* strategy (run only for a known context) and of the unscoped strategy, each
\* date once, in strictly ascending order; with an unknown or absent context
\* it returns the unscoped dates alone, without an error.
C21_UnionSortedOnce ==
    (epc = "extract_dates") =>
        /\ extracted.raised = "None"
        /\ Range(extracted.value) = ScopedDates \cup UnscopedDates
        /\ \A i, j \in 1..Len(extracted.value) :
              i < j => Earlier(extracted.value[i], extracted.value[j])
        /\ context \notin KnownContexts => Range(extracted.value) = UnscopedDates

\* The candidates parse_date keeps.
Kept(matches) == SelectSeq(matches, LAMBDA c : parse_date(c) # None)
KeptPairs(rm) ==
    SelectSeq(rm, LAMBDA p : parse_date(p[1]) # None /\ parse_date(p[2]) # None)

InRange(d) == 1800 <= d.year /\ d.year <= 2100

\* C22: no date with a year outside 1800..2100 is returned by parse_date,
\* extract_dates, extract_date_ranges, extract_incorporation_date or
\* extract_name_change_date; a candidate with such a year, or one that does
\* not parse, is dropped without an exception and the result is that of the
\* other candidates alone.
C22_YearsInRange ==
    /\ (epc = "parse_date") =>
          /\ extracted.raised = "None"
          /\ extracted.value # None => InRange(extracted.value)
          /\ (~IsDateTime(scoped_matches[1]) \/ ~InRange(scoped_matches[1]))
                => extracted.value = None
    /\ (epc = "extract_dates") =>
          /\ \A i \in 1..Len(extracted.value) : InRange(extracted.value[i])
          /\ extracted = extract_dates(Kept(scoped_matches), Kept(plain_matches), context)
    /\ (epc = "extract_date_ranges") =>
          /\ extracted.raised = "None"
          /\ \A i \in 1..Len(extracted.value) :
                /\ InRange(extracted.value[i].start_date)
                /\ InRange(extracted.value[i].end_date)
          /\ extracted.value = extract_date_ranges(KeptPairs(range_matches))
          /\ Len(extracted.value) = Len(KeptPairs(range_matches))
    /\ (epc \in {"extract_incorporation_date", "extract_name_change_date"}) =>
          /\ extracted.raised = "None"
          /\ extracted.value # None => InRange(extracted.value)
          /\ extracted.value = FirstOrNone(Kept(scoped_matches))

\* C22 witness: extract_dates met the year 9999, an unparsable match and a
\* match on which dateparser raised, and returned the one date in range.
C22_Witness ==
    /\ epc = "extract_dates"
    /\ context = "incorporation"
    /\ scoped_matches = << DateTime(9999, 0, FALSE), DateTime(2100, 0, FALSE) >>
    /\ plain_matches = << Raises, None >>
    /\ extracted = Returned(<< DateTime(2100, 0, FALSE) >>)

\* ---------------------------------------------------------- disk cleanup
\*
\* src/cleanup.py on any disk, together with the cleanup step of a scan that
\* has come to it (src/app.py lines 345-353).

\* The most files on disk.
MaxFiles == 3

\* Ages in hours, on both sides of the cutoffs of 1 hour, 1 day, 3 days and
\* 7 days.
Ages == {1, 2, 25, 73, 169}

\* The files of EXPORTS_DIR and DATA_DIR, and those of CACHE_DIR when it is
\* cache_dir: old enough for every cutoff, or not for any.
FileChoices(cache_dir) ==
    [dir : {"exports", "data"}, folder : {NoNumber},
     name : {<<"old", NoNumber, -1>>}, ext : {"pdf", "csv"}, age : Ages]
    \cup [dir : {cache_dir}, folder : {NoNumber},
          name : {<<"old", NoNumber, -1>>}, ext : {"pdf", "json"}, age : {1, 169}]

\* The subsets of S of at most n members.
RECURSIVE SubsetsUpTo(_, _)
SubsetsUpTo(S, n) ==
    IF n = 0 THEN { {} }
    ELSE LET smaller == SubsetsUpTo(S, n - 1)
         IN  smaller \cup { fs \cup {f} : fs \in smaller, f \in S }

\* cleanup_exports(max_age_hours): unlink may fail on any of the old files.
cleanup_exports(max_age_hours) ==
    /\ \E gone \in SUBSET OldExports(files, max_age_hours) :
          UnlinkExports(max_age_hours, gone)
    /\ UNCHANGED existing
    /\ UNCHANGED << vars, others >>

\* Mutant of cleanup_cache: the cleanup removes the cache files older than
\* max_age_days.
cleanup_cache_enabled ==
    /\ \E max_age_days \in {7} :
          LET gone == { f \in files :
                          UnderCache(f) /\ f.age > max_age_days * HoursPerDay }
          IN  /\ files' = files \ gone
              /\ removed' = removed \cup gone
              /\ returned' = ReturnedCount("cleanup_cache", max_age_days, Cardinality(gone))
    /\ UNCHANGED existing
    /\ UNCHANGED << vars, others >>

\* cleanup_cache(max_age_days): disabled, returns 0.
cleanup_cache ==
    /\ \E max_age_days \in {7} :
          returned' = ReturnedCount("cleanup_cache", max_age_days, 0)
    /\ UNCHANGED << existing, files, removed >>
    /\ UNCHANGED << vars, others >>

\* cleanup_data_pdfs(max_age_days): unlink may fail on any of the old PDFs.
cleanup_data_pdfs(max_age_days) ==
    /\ \E gone \in SUBSET OldDataPdfs(files, max_age_days) :
          UnlinkDataPdfs(max_age_days, gone)
    /\ UNCHANGED existing
    /\ UNCHANGED << vars, others >>

\* cleanup_all(): exports older than 24 hours, then PDFs older than 3 days;
\* nothing is returned.
cleanup_all ==
    /\ \E gone_exports \in SUBSET (IF "exports" \in existing
                                   THEN OldExports(files, 24) ELSE {}),
          gone_pdfs \in SUBSET (IF "data" \in existing
                                THEN OldDataPdfs(files, 3) ELSE {}) :
          /\ files' = files \ (gone_exports \cup gone_pdfs)
          /\ removed' = removed \cup gone_exports \cup gone_pdfs
    /\ returned' = ReturnedNone("cleanup_all", 24)
    /\ UNCHANGED existing
    /\ UNCHANGED << vars, others >>

cleanup_exports_call == \E max_age_hours \in {1, 24} : cleanup_exports(max_age_hours)

cleanup_data_pdfs_call == \E max_age_days \in {1, 3} : cleanup_data_pdfs(max_age_days)

\* The request a scan in flight serves: two companies, no cache.
BatchRequest ==
    [ NoRequest EXCEPT !.scan_mode = "specific",
                       !.company_numbers = <<N123, N123456789>>,
                       !.ch_api_key = "ch-key" ]

\* The application while handler 1 serves BatchRequest and waits in
\* cleanup_exports: its batch is processed and stored, and nothing was
\* exported or pushed for its two companies.
ScanAtCleanup ==
    LET nums == ZfillAll(BatchRequest.company_numbers)
        res == process_companies(nums, FALSE, DefaultNetworkDepth, FALSE, FALSE)
    IN  /\ pc = [h \in Handlers |-> IF h = 1 THEN "cleanup" ELSE "idle"]
        /\ req = [h \in Handlers |-> IF h = 1 THEN BatchRequest ELSE NoRequest]
        /\ search_results = [h \in Handlers |-> <<>>]
        /\ company_numbers = [h \in Handlers |-> IF h = 1 THEN nums ELSE <<>>]
        /\ folder_suffix = [h \in Handlers |-> Unbound]
        /\ results = [h \in Handlers |-> IF h = 1 THEN res ELSE NoResults]
        /\ results_ref = [h \in Handlers |-> IF h = 1 THEN 1 ELSE 0]
        /\ result_id = [h \in Handlers |-> IF h = 1 THEN 0 ELSE -1]
        /\ exported = [h \in Handlers |-> <<>>]
        /\ zipf = [h \in Handlers |-> NoZip]
        /\ uploads = [h \in Handlers |-> {}]
        /\ known = [h \in Handlers |-> {}]
        /\ response = [h \in Handlers |-> NoResponse]
        /\ trace = [h \in Handlers |->
                      IF h = 1
                      THEN << Call("GitHubStorage", NoNumber, "", "ok"),
                              Call("CompaniesHouseClient", NoNumber, "", "ok"),
                              Call("process_companies", NoNumber, "", "ok") >>
                      ELSE <<>>]
        /\ processing_results = Put(<< >>, 0, res)
        /\ owner = Put(<< >>, 0, 1)
        /\ session = 0
        /\ github = << >>
        /\ now = 0
        /\ nreq = 1

CleanupInit ==
    /\ ScanAtCleanup /\ DatesUnused /\ TraversalUnused /\ LimiterInit
    /\ ExtractIdle /\ ReportsIdle
    /\ existing \in SUBSET {"exports", "data"}
    /\ \E cache_dir \in CacheDirs :
          files \in { fs \in SubsetsUpTo(FileChoices(cache_dir), MaxFiles) :
                        \A f \in fs : /\ (UnderExports(f) => "exports" \in existing)
                                       /\ (UnderData(f) => "data" \in existing) }
    /\ removed = {}
    /\ returned = NoCall

CleanupNext ==
    \/ cleanup_exports_call
    \/ cleanup_cache
    \/ cleanup_data_pdfs_call
    \/ cleanup_all
    \/ \E h \in Handlers : scan_cleanup(h)
    \/ \E h \in Handlers : scan_cleanup_pdfs(h)

SpecCleanup == CleanupInit /\ [][CleanupNext]_<< vars, cvars >>

\* ------------------------------------------------- claims on the cleanup

MaxMismatches == 2

\* Largest network depth of a reported batch.
MaxReportDepth == 1

\* The slots of company number c: an error, or a result with some
\* mismatches.
SlotsOf(c) ==
    { [company_number |-> c, error |-> TRUE, mismatches |-> 0] } \cup
    (IF c \in RegisteredCompanies
     THEN { [company_number |-> c, error |-> FALSE, mismatches |-> m] :
               m \in 0..MaxMismatches }
     ELSE {})

\* The results lists of a batch over the companies of `requested`.
ResultsOf(requested) ==
    { r \in [1..Len(requested) -> UNION { SlotsOf(requested[i]) : i \in 1..Len(requested) }] :
         \A i \in 1..Len(requested) : r[i] \in SlotsOf(requested[i]) }

\* The graph the traversal builds from the companies of `level` down to depth
\* `limit`: the directors and (company, director) connections of every
\* company expanded, seeds and discovered companies alike.
RECURSIVE NetworkOf(_, _, _, _, _)
NetworkOf(level, seen, d, limit, g) ==
    LET ok    == level \cap RegisteredCompanies
        ds    == UNION { directors_of(c, FALSE) : c \in ok }
        found == UNION { companies_of(x, FALSE) : x \in ds }
        new   == IF EnqueueAllowed(d, limit) THEN NewlyReachable(found, seen) ELSE {}
        g2    == [present     |-> TRUE,
                  none        |-> FALSE,
                  directors   |-> g.directors \cup ds,
                  connections |-> g.connections \cup
                                    UNION { { <<c, x>> : x \in directors_of(c, FALSE) } : c \in ok }]
    IN IF new = {} THEN g2 ELSE NetworkOf(new, seen \cup new, d + 1, limit, g2)

\* The network of a batch: none, empty, or the traversal's graph.
NetworksOf(requested) ==
    {NoGraph, EmptyNetwork} \cup
    { NetworkOf(Range(requested), Range(requested), 0, limit,
                [present |-> TRUE, none |-> FALSE,
                 directors |-> {}, connections |-> {}]) :
         limit \in 0..MaxReportDepth }

\* What the exporters are handed.
ReportInputs ==
    UNION { { [results |-> r, network |-> n] :
                 r \in ResultsOf(requested), n \in NetworksOf(requested) } :
            requested \in SeedLists(MaxSeeds) }

\* The members of a set in a list, in some order (the order of a dict or of
\* the connections list).
RECURSIVE ListOf(_)
ListOf(S) ==
    IF S = {} THEN <<>>
    ELSE LET x == CHOOSE y \in S : TRUE IN <<x>> \o ListOf(S \ {x})

\* The company node of a scan result (json_exporter.py lines 142-149).
CompanyNode(r) ==
    [id |-> r.company_number, type |-> "company", has_mismatches |-> r.mismatches > 0]

\* The director node of a network director (lines 165-172).
DirectorNode(d) ==
    [id |-> d, type |-> "director", has_mismatches |-> FALSE]

\* The edge of a connection (lines 175-181).
Edge(connection) == [source |-> connection[1], target |-> connection[2]]

\* The mismatch summaries (lines 152-157).
RECURSIVE MismatchSummaries(_)
MismatchSummaries(batch) ==
    IF batch = <<>> THEN <<>>
    ELSE (IF Head(batch).mismatches > 0
          THEN << [company_id |-> Head(batch).company_number,
                   count |-> Head(batch).mismatches] >>
          ELSE <<>>) \o MismatchSummaries(Tail(batch))

\* viz_data as export_for_visualization writes it.
VizData(batch) ==
    LET company_nodes == [i \in 1..Len(batch.results) |-> CompanyNode(batch.results[i])]
        graph == batch.network
        director_nodes == IF graph.present
                          THEN [i \in 1..Cardinality(graph.directors) |->
                                   DirectorNode(ListOf(graph.directors)[i])]
                          ELSE <<>>
        edges == IF graph.present
                 THEN [i \in 1..Cardinality(graph.connections) |->
                          Edge(ListOf(graph.connections)[i])]
                 ELSE <<>>
    IN  [nodes |-> company_nodes \o director_nodes,
         edges |-> edges,
         mismatches |-> MismatchSummaries(batch.results)]

\* The card of a scan result: clean unless it has mismatches
\* (html_exporter.py lines 349-350 and 390).
Card(r) ==
    [company_number |-> r.company_number,
     card_class |-> IF r.mismatches > 0 THEN "has-mismatch" ELSE "clean",
     badge |-> IF r.mismatches > 0 THEN "Issues" ELSE "Clean"]

RECURSIVE SumMismatches(_)
SumMismatches(batch) ==
    IF batch = <<>> THEN 0
    ELSE Head(batch).mismatches + SumMismatches(Tail(batch))

\* sum(1 for r in results.get('results', []) if len(...mismatches...) > 0)
WithMismatches(batch) ==
    Cardinality({ i \in 1..Len(batch) : batch[i].mismatches > 0 })

\* _generate_full_report_html(results, include_network): the statistics, the
\* cards, and whether the network section is rendered (lines 81-89, 303-337).
HtmlReport(batch, include_network) ==
    LET total_companies == Len(batch.results)
        companies_with_mismatches == WithMismatches(batch.results)
    IN  [total_companies |-> total_companies,
         companies_with_mismatches |-> companies_with_mismatches,
         total_mismatches |-> SumMismatches(batch.results),
         clean_records |-> total_companies - companies_with_mismatches,
         cards |-> [i \in 1..Len(batch.results) |-> Card(batch.results[i])],
         network_section |-> include_network /\ batch.network.present]

\* _generate_widget_html(results): Companies, With Issues, Total Issues
\* (lines 474-482).
WidgetHtml(batch) ==
    [NoExportData EXCEPT !.kind = "widget",
                         !.total_companies = Len(batch.results),
                         !.with_issues = WithMismatches(batch.results),
                         !.total_issues = SumMismatches(batch.results)]

\* The companies list of export_mismatches_only (lines 68-74).
MismatchData(batch) ==
    [NoExportData EXCEPT !.kind = "mismatches",
                         !.companies = [i \in 1..Len(batch.results) |->
                                          [company_number |-> batch.results[i].company_number,
                                           mismatches |-> batch.results[i].mismatches]]]

\* timestamp = datetime.now().strftime('%Y%m%d_%H%M%S')
Stamps == 0..MaxClock

\* An export with no output_file: output_file.parent.mkdir(parents=True,
\* exist_ok=True), then the file is written and its path returned.
WriteExport(exporter, batch, prefix, ext) ==
    /\ rpc = "idle"
    /\ rpc' = exporter
    /\ report_input' = batch
    /\ existing' = existing \cup {"exports"}
    /\ \E t \in Stamps :
          /\ files' = Write(files, ExportFile(prefix, NoNumber, t, ext))
          /\ written' = ExportFile(prefix, NoNumber, t, ext)
    /\ UNCHANGED << removed, returned >>
    /\ UNCHANGED << vars, dvars, tvars, lvars, evars >>

\* JSONExporter.export_full_results(results): the results as they are.
export_full_results ==
    \E batch \in ReportInputs :
        /\ WriteExport("export_full_results", batch, "results", "json")
        /\ export_data' = [NoExportData EXCEPT !.kind = "results",
                                               !.companies = batch.results,
                                               !.network = batch.network]
        /\ UNCHANGED << viz_data, html_report >>

\* JSONExporter.export_mismatches_only(results)
export_mismatches_only ==
    \E batch \in ReportInputs :
        /\ WriteExport("export_mismatches_only", batch, "mismatches", "json")
        /\ export_data' = MismatchData(batch)
        /\ UNCHANGED << viz_data, html_report >>

\* JSONExporter.export_network(network), on the network of a batch: with
\* None for the network, {'exported_at': ..., **network} raises TypeError
\* after EXPORTS_DIR was made, and no file is written (lines 95-104).
export_network ==
    \E batch \in ReportInputs :
        /\ IF batch.network.none
           THEN /\ rpc = "idle"
                /\ rpc' = "export_network"
                /\ report_input' = batch
                /\ existing' = existing \cup {"exports"}
                /\ export_data' = [NoExportData EXCEPT !.kind = "TypeError"]
                /\ UNCHANGED << files, removed, returned, written >>
                /\ UNCHANGED << vars, dvars, tvars, lvars, evars >>
           ELSE /\ WriteExport("export_network", batch, "network", "json")
                /\ export_data' = [NoExportData EXCEPT !.kind = "network",
                                                       !.network = batch.network]
        /\ UNCHANGED << viz_data, html_report >>

\* JSONExporter.export_for_visualization(results)
export_for_visualization ==
    \E batch \in ReportInputs :
        /\ WriteExport("export_for_visualization", batch, "viz", "json")
        /\ viz_data' = VizData(batch)
        /\ UNCHANGED << html_report, export_data >>

\* HTMLExporter.export_report(results, include_network=...)
export_report ==
    \E batch \in ReportInputs, include_network \in BOOLEAN :
        /\ WriteExport("export_report", batch, "report", "html")
        /\ html_report' = HtmlReport(batch, include_network)
        /\ UNCHANGED << viz_data, export_data >>

\* HTMLExporter.export_embeddable_widget(results)
export_embeddable_widget ==
    \E batch \in ReportInputs :
        /\ WriteExport("export_embeddable_widget", batch, "widget", "html")
        /\ export_data' = WidgetHtml(batch)
        /\ UNCHANGED << viz_data, html_report >>

\* An export of an earlier run, written in the second the clock starts at.
EarlierViz == File("exports", NoNumber, "viz", NoNumber, 0, "json", 2)

ReportsInit ==
    /\ AppInit /\ DatesUnused /\ TraversalUnused /\ LimiterInit
    /\ ExtractIdle
    /\ ReportsIdle
    /\ existing \in SUBSET {"exports", "data"}
    /\ files \in {{}} \cup (IF "exports" \in existing THEN {{EarlierViz}} ELSE {})
    /\ removed = {}
    /\ returned = NoCall

ReportsNext ==
    \/ export_full_results
    \/ export_mismatches_only
    \/ export_network
    \/ export_for_visualization
    \/ export_report
    \/ export_embeddable_widget

SpecReports == ReportsInit /\ [][ReportsNext]_<< rvars, cvars >>

\* ------------------------------------------------ claims on the exporters

NodeIds(kind) ==
    { viz_data.nodes[i].id : i \in { k \in 1..Len(viz_data.nodes) : viz_data.nodes[k].type = kind } }

NodeCount(kind) ==
    Cardinality({ k \in 1..Len(viz_data.nodes) : viz_data.nodes[k].type = kind })

\* C29: in the visualization export every edge joins two exported nodes, its
\* source the id of an exported company node and its target the id of an
\* exported director node, for every result set with a network; there is one
\* company node per scan result and one director node per network director.
C29_EdgesJoinNodes ==
    (rpc = "export_for_visualization") =>
        /\ NodeCount("company") = Len(report_input.results)
        /\ report_input.network.present =>
              /\ NodeCount("director") = Cardinality(report_input.network.directors)
              /\ \A i \in 1..Len(viz_data.edges) :
                    /\ viz_data.edges[i].source \in NodeIds("company")
                    /\ viz_data.edges[i].target \in NodeIds("director")

\* C30: a company is shown and counted as clean only if it was scanned
\* without an error and has no mismatches: no slot with a per-company error
\* has the Clean badge or is counted in Clean Records; and Companies Analyzed
\* is With Mismatches plus Clean Records.
C30_CleanMeansScanned ==
    (rpc = "export_report") =>
        /\ \A i \in 1..Len(html_report.cards) :
              html_report.cards[i].badge = "Clean" =>
                  /\ ~report_input.results[i].error
                  /\ report_input.results[i].mismatches = 0
        /\ html_report.clean_records =
              Cardinality({ i \in 1..Len(report_input.results) :
                              /\ ~report_input.results[i].error
                              /\ report_input.results[i].mismatches = 0 })
        /\ html_report.total_companies =
              html_report.companies_with_mismatches + html_report.clean_records

====
